---- MODULE Spec2Model ----
(***************************************************************************)
(* State-machine model of the nutrition planner: the NutritionDB data      *)
(* access object (src/utils/db_manager.py) over its SQLite tables, and the *)
(* Streamlit pages that drive it through session-state flags.              *)
(*                                                                         *)
(* A table is a set of rows; a row is a record carrying its rowid `id`.    *)
(* Every operation is one action.  It records what was called in `call`,   *)
(* how the call ended in `result` ("True", "False", "None", or the name of *)
(* the exception that escaped) and the value it returned in `ret`.         *)
(***************************************************************************)
EXTENDS Integers, FiniteSets, Sequences, TLC

VARIABLES
    profile,              \* table profile
    food_sources,         \* table food_sources
    meals,                \* table meals
    meal_foods,           \* table meal_foods
    meal_programs,        \* table meal_programs
    program_meals,        \* table program_meals
    meal_tracking,        \* table meal_tracking
    now,                  \* the clock read by datetime.now()
    confirm_delete_meals, \* st.session_state.confirm_delete_meals
    meals_to_delete,      \* st.session_state.meals_to_delete
    delete_info,          \* st.session_state.delete_info
    confirm_delete_foods, \* st.session_state.confirm_delete_foods
    foods_to_delete,      \* st.session_state.foods_to_delete
    delete_food_info,     \* st.session_state.delete_food_info
    success_message,      \* st.session_state.success_message
    error_message,        \* st.session_state.error_message
    last_profile,         \* history: the arguments of the latest save_profile
    call,                 \* history: the operation that ran last, with its arguments
    current_page,         \* st.session_state.current_page (View Programs)
    selected_program,     \* the program chosen in the selectbox of View Programs
    current_program_id,   \* st.session_state.current_program_id (Create Program)
    create_program_tab,   \* st.session_state.create_program_tab
    editing_meal,         \* st.session_state.editing_meal (Regular Meals)
    selected_cats,        \* the categories chosen in the filter of Regular Meals
    in_flight,            \* per session: the update_program_meal call it is inside
    result,               \* history: how that operation ended
    ret                   \* history: the value it returned

tables == <<profile, food_sources, meals, meal_foods, meal_programs,
            program_meals, meal_tracking>>
meal_session == <<confirm_delete_meals, meals_to_delete, delete_info>>
food_session == <<confirm_delete_foods, foods_to_delete, delete_food_info>>
page_state == <<current_page, selected_program, current_program_id,
                create_program_tab, editing_meal, selected_cats, in_flight>>
vars == <<profile, food_sources, meals, meal_foods, meal_programs,
          program_meals, meal_tracking, now,
          confirm_delete_meals, meals_to_delete, delete_info,
          confirm_delete_foods, foods_to_delete, delete_food_info,
          success_message, error_message,
          current_page, selected_program, current_program_id,
          create_program_tab, editing_meal, selected_cats, in_flight,
          last_profile, call, result, ret>>

----------------------------------------------------------------------------
(* Bounds of the model *)

MaxClock == 4          \* number of save_profile calls explored
MaxFoodId == 2         \* largest rowid of food_sources
MaxMealId == 2         \* largest rowid of meals
MaxMealFoodId == 3     \* largest rowid of meal_foods
MaxProgramId == 2      \* largest rowid of meal_programs
MaxProgramMealId == 3  \* largest rowid of program_meals
MaxTrackingId == 1     \* largest rowid of meal_tracking

----------------------------------------------------------------------------
(* Values *)

\* SQL NULL and Python None
NULL == [null |-> TRUE]
None == [none |-> TRUE]

Max(S) == CHOOSE x \in S : \A y \in S : y <= x

\* `id INTEGER PRIMARY KEY` without AUTOINCREMENT: SQLite gives a new row the
\* rowid one above the largest in the table, so the rowid of a deleted last
\* row is handed out again.
NextRowId(table) == IF table = {} THEN 1 ELSE Max({r.id : r \in table}) + 1

\* get_connection opens the database without `PRAGMA foreign_keys = ON`, so
\* SQLite does not enforce the FOREIGN KEY clauses of the schema and runs none
\* of their ON DELETE CASCADE actions.
foreign_keys == FALSE

\* The session of a browser that has opened no page yet: current_page is
\* created as 0 by view_programs.py, current_program_id as None and
\* create_program_tab as "details" by create_program.py; editing_meal is
\* absent; the select boxes hold their defaults; no database call is running.
Sessions == {1, 2}

InitPageState ==
    /\ current_page = 0
    /\ selected_program = None
    /\ current_program_id = None
    /\ create_program_tab = "details"
    /\ editing_meal = None
    /\ selected_cats = None
    /\ in_flight = [s \in Sessions |-> None]

----------------------------------------------------------------------------
(* The state after NutritionDB() on a fresh database and a fresh session *)

Init ==
    /\ profile = {}
    /\ food_sources = {}
    /\ meals = {}
    /\ meal_foods = {}
    /\ meal_programs = {}
    /\ program_meals = {}
    /\ meal_tracking = {}
    /\ now = 0
    /\ confirm_delete_meals = FALSE
    /\ meals_to_delete = {}
    /\ delete_info = None
    /\ confirm_delete_foods = FALSE
    /\ foods_to_delete = {}
    /\ delete_food_info = None
    /\ success_message = None
    /\ error_message = None
    /\ InitPageState
    /\ last_profile = None
    /\ call = [op |-> "init"]
    /\ result = "None"
    /\ ret = None

----------------------------------------------------------------------------
(* Profile *)

ActivityLevels == {"Sedentary", "Very Active"}
GoalTypes == {"Weight Loss", "Maintenance", "Weight Gain"}
Genders == {"Male", "Female"}
Weights == {60, 90}

ProfileArgs ==
    [weight : Weights, height : {175}, age : {30}, activity_level : ActivityLevels,
     gender : Genders, goal_type : GoalTypes, goal_percentage : {10}]

\* save_profile without its DELETE FROM profile
SaveProfileRows_KeepOld(rows, args, clock) ==
    rows \cup {[id |-> NextRowId(rows), data |-> args, last_updated |-> clock]}

\* save_profile: DELETE FROM profile, then INSERT the new row stamped with
\* datetime.now().
SaveProfileRows(rows, args, clock) ==
    LET emptied == {}
    IN  emptied \cup {[id |-> NextRowId(emptied), data |-> args, last_updated |-> clock]}

save_profile(args) ==
    /\ now < MaxClock
    /\ now' = now + 1
    /\ profile' = SaveProfileRows(profile, args, now')
    /\ last_profile' = args
    /\ UNCHANGED page_state
    /\ call' = [op |-> "save_profile", args |-> args]
    /\ result' = "None"
    /\ ret' = None
    /\ UNCHANGED <<food_sources, meals, meal_foods, meal_programs, program_meals,
                   meal_tracking, meal_session, food_session, success_message,
                   error_message>>

\* load_profile: SELECT * FROM profile ORDER BY last_updated DESC LIMIT 1;
\* fetchone() gives None on an empty table.
LoadProfileRow(rows) ==
    IF rows = {} THEN None
    ELSE CHOOSE r \in rows : \A q \in rows : q.last_updated <= r.last_updated

load_profile ==
    /\ UNCHANGED page_state
    /\ call' = [op |-> "load_profile"]
    /\ ret' = LoadProfileRow(profile)
    /\ result' = IF profile = {} THEN "None" ELSE "row"
    /\ UNCHANGED <<tables, now, meal_session, food_session, success_message,
                   error_message,
                   last_profile>>

NextProfile ==
    \/ \E args \in ProfileArgs : save_profile(args)
    \/ load_profile

SpecProfile == Init /\ [][NextProfile]_vars

----------------------------------------------------------------------------
(* Food sources *)

FoodNames == {"Egg", "Oats"}
FoodData == {[base_unit |-> "g", conversion_factor |-> 1],
             [base_unit |-> "unit", conversion_factor |-> 50]}

FoodNamed(rows, name) == {f \in rows : f.name = name}

\* save_food_source: one INSERT; the UNIQUE(name) violation is caught and
\* turned into False.
SaveFoodSourceInserts(rows, name) == FoodNamed(rows, name) = {}

\* save_food_source as INSERT OR REPLACE
SaveFoodSourceRows_Replace(rows, name, data) ==
    IF SaveFoodSourceInserts(rows, name)
    THEN rows \cup {[id |-> NextRowId(rows), name |-> name, data |-> data]}
    ELSE {IF f.name = name THEN [f EXCEPT !.data = data] ELSE f : f \in rows}

SaveFoodSourceRows(rows, name, data) ==
    IF SaveFoodSourceInserts(rows, name)
    THEN rows \cup {[id |-> NextRowId(rows), name |-> name, data |-> data]}
    ELSE rows

save_food_source(name, data) ==
    /\ SaveFoodSourceInserts(food_sources, name) => NextRowId(food_sources) <= MaxFoodId
    /\ food_sources' = SaveFoodSourceRows(food_sources, name, data)
    /\ UNCHANGED page_state
    /\ call' = [op |-> "save_food_source", name |-> name, data |-> data]
    /\ result' = IF SaveFoodSourceInserts(food_sources, name) THEN "True" ELSE "False"
    /\ ret' = None
    /\ UNCHANGED <<profile, meals, meal_foods, meal_programs, program_meals,
                   meal_tracking, now, meal_session, food_session,
                   success_message, error_message, last_profile>>

\* The rows of a child table that survive the deletion of parent rows: the
\* ON DELETE CASCADE of the schema acts only when foreign keys are enforced.
Cascade(children, column, deleted_ids) ==
    IF foreign_keys
    THEN {c \in children : c[column] \notin deleted_ids}
    ELSE children

\* delete_multiple_food_sources: DELETE FROM food_sources WHERE name IN (...).
DeleteFoodRows(rows, food_names) == {f \in rows : f.name \notin food_names}

DeleteFoodsEffect(food_names) ==
    LET gone == {f.id : f \in food_sources \ DeleteFoodRows(food_sources, food_names)}
    IN  /\ food_sources' = DeleteFoodRows(food_sources, food_names)
        /\ meal_foods' = Cascade(meal_foods, "food_id", gone)

----------------------------------------------------------------------------
(* Meals *)

MealNames == {"Porridge", "Omelette"}
MealCategories == {"Breakfast", "Lunch/Dinner", "Snacks"}
Quantities == {1, 2}
CustomMacros == {[calories |-> 400, proteins |-> 30, carbs |-> 40, fats |-> 10],
                 [calories |-> 650, proteins |-> 45, carbs |-> 60, fats |-> 25]}

\* foods_quantities is a dict keyed by food name: its entries, in insertion
\* order, each with the food's id and the chosen quantity.
FoodsQuantities(ids) ==
    {<<>>}
    \cup {<<[id |-> i, quantity |-> q]>> : i \in ids, q \in Quantities}
    \cup {fq \in {<<[id |-> i, quantity |-> q], [id |-> j, quantity |-> 1]>> :
                    i \in ids, j \in ids, q \in Quantities} : fq[1].id # fq[2].id}

MealById(rows, meal_id) == {m \in rows : m.id = meal_id}
MealNamed(rows, name) == {m \in rows : m.name = name}

\* The loop `for food_name, data in foods_quantities.items(): INSERT INTO
\* meal_foods (meal_id, food_id, quantity)`.
InsertMealFoods(rows, meal_id, fq) ==
    LET base == NextRowId(rows)
    IN  rows \cup {[id |-> base + i - 1, meal_id |-> meal_id,
                    food_id |-> fq[i].id, quantity |-> fq[i].quantity] :
                   i \in 1..Len(fq)}

MealFoodIdsFit(rows, fq) == NextRowId(rows) + Len(fq) - 1 <= MaxMealFoodId

\* save_meal: the INSERT INTO meals stands before the try block, so its
\* UNIQUE(name) violation is not caught by `except sqlite3.IntegrityError`.
SaveMealOutcome(rows, name) ==
    IF MealNamed(rows, name) # {} THEN "IntegrityError" ELSE "True"

\* save_meal writing the macro columns for every meal type
SaveMealRow_StoresMacros(rows, name, category, meal_type, custom_macros) ==
    [id |-> NextRowId(rows), name |-> name, category |-> category,
     type |-> meal_type, macros |-> custom_macros]

SaveMealRow(rows, name, category, meal_type, custom_macros) ==
    [id |-> NextRowId(rows), name |-> name, category |-> category,
     type |-> meal_type,
     macros |-> IF meal_type = "custom" THEN custom_macros ELSE NULL]

save_meal(name, category, meal_type, fq, custom_macros) ==
    LET outcome == SaveMealOutcome(meals, name)
        row == SaveMealRow(meals, name, category, meal_type, custom_macros)
        stores_foods == meal_type = "regular" /\ fq # <<>>
    IN  /\ outcome = "True" => row.id <= MaxMealId
        /\ (outcome = "True" /\ stores_foods) => MealFoodIdsFit(meal_foods, fq)
        /\ meals' = IF outcome = "True" THEN meals \cup {row} ELSE meals
        /\ meal_foods' = IF outcome = "True" /\ stores_foods
                         THEN InsertMealFoods(meal_foods, row.id, fq)
                         ELSE meal_foods
        /\ UNCHANGED page_state
        /\ call' = [op |-> "save_meal", name |-> name, type |-> meal_type,
                    custom_macros |-> custom_macros]
        /\ result' = outcome
        /\ ret' = None
        /\ UNCHANGED <<profile, food_sources, meal_programs, program_meals,
                       meal_tracking, now, meal_session, food_session,
                       success_message, error_message, last_profile>>

\* update_meal on a meals table whose name column is not UNIQUE
UpdateMealOutcome_NoUnique(rows, meal_id, name) ==
    IF MealById(rows, meal_id) = {} THEN "IndexError" ELSE "True"

\* update_meal: reads the meal's type (`.iloc[0]` of an empty frame raises
\* IndexError), then UPDATE meals inside the try block: a UNIQUE(name)
\* violation returns False and the uncommitted connection is closed.
UpdateMealOutcome(rows, meal_id, name) ==
    IF MealById(rows, meal_id) = {} THEN "IndexError"
    ELSE IF \E m \in MealNamed(rows, name) : m.id # meal_id THEN "False"
    ELSE "True"

UpdateMealRow(m, name, category, custom_macros) ==
    IF m.type = "custom"
    THEN [m EXCEPT !.name = name, !.category = category, !.macros = custom_macros]
    ELSE [m EXCEPT !.name = name, !.category = category]

\* update_meal adding the new rows without the DELETE FROM meal_foods
UpdateMealFoods_Append(rows, meal_id, fq) == InsertMealFoods(rows, meal_id, fq)

UpdateMealFoods(rows, meal_id, fq) ==
    InsertMealFoods({r \in rows : r.meal_id # meal_id}, meal_id, fq)

update_meal(meal_id, name, category, fq, custom_macros) ==
    LET outcome == UpdateMealOutcome(meals, meal_id, name)
        old == CHOOSE m \in MealById(meals, meal_id) : TRUE
        replaces_foods == old.type = "regular" /\ fq # <<>>
    IN  /\ (outcome = "True" /\ replaces_foods) =>
                MealFoodIdsFit({r \in meal_foods : r.meal_id # meal_id}, fq)
        /\ meals' = IF outcome = "True"
                    THEN (meals \ {old}) \cup
                         {UpdateMealRow(old, name, category, custom_macros)}
                    ELSE meals
        /\ meal_foods' = IF outcome = "True" /\ replaces_foods
                         THEN UpdateMealFoods(meal_foods, meal_id, fq)
                         ELSE meal_foods
        /\ UNCHANGED page_state
        /\ call' = [op |-> "update_meal", meal_id |-> meal_id, name |-> name,
                    foods_quantities |-> fq, custom_macros |-> custom_macros]
        /\ result' = outcome
        /\ ret' = None
        /\ UNCHANGED <<profile, food_sources, meal_programs, program_meals,
                       meal_tracking, now, meal_session, food_session,
                       success_message, error_message, last_profile>>

\* delete_meal: DELETE FROM meals WHERE id = ?; when a row went, DELETE FROM
\* meal_foods WHERE meal_id = ?.  program_meals and meal_tracking are left to
\* the schema's ON DELETE CASCADE.
DeleteMealFoods(rows, meal_ids) == {r \in rows : r.meal_id \notin meal_ids}

\* The effect of delete_meal on every id of meal_ids (the pages call it in a
\* loop).
DeleteMealEffect(meal_ids) ==
    LET gone == {m.id : m \in meals} \cap meal_ids
    IN  /\ meals' = {m \in meals : m.id \notin gone}
        /\ meal_foods' = DeleteMealFoods(meal_foods, gone)
        /\ program_meals' = Cascade(program_meals, "meal_id", gone)
        /\ meal_tracking' = Cascade(meal_tracking, "meal_id", gone)

delete_meal(meal_id) ==
    /\ DeleteMealEffect({meal_id})
    /\ UNCHANGED page_state
    /\ call' = [op |-> "delete_meal", meal_id |-> meal_id]
    /\ result' = IF MealById(meals, meal_id) = {} THEN "False" ELSE "True"
    /\ ret' = None
    /\ UNCHANGED <<profile, food_sources, meal_programs, now, meal_session,
                   food_session, success_message, error_message, last_profile>>

\* check_meal_in_programs: SELECT COUNT(*) FROM program_meals WHERE meal_id = ?
\* and `return count > 0`, a bool.
check_meal_in_programs(meal_id) ==
    Cardinality({r \in program_meals : r.meal_id = meal_id}) > 0

----------------------------------------------------------------------------
(* Meal programs, their slots, and the log of eaten meals *)

MealTimes == {"Breakfast", "Morning Snack", "Lunch", "Afternoon Snack", "Dinner"}

\* The rows of one (program, date, meal time) slot
Slot(rows, program_id, date, meal_time) ==
    {r \in rows : r.program_id = program_id /\ r.date = date /\ r.meal_time = meal_time}

\* save_meal_program: INSERT INTO meal_programs; returns the new rowid.
save_meal_program(name, start_date, end_date) ==
    LET row == [id |-> NextRowId(meal_programs), name |-> name,
                start_date |-> start_date, end_date |-> end_date]
    IN  /\ row.id <= MaxProgramId
        /\ meal_programs' = meal_programs \cup {row}
        /\ UNCHANGED page_state
        /\ call' = [op |-> "save_meal_program", name |-> name]
        /\ result' = "id"
        /\ ret' = [program_id |-> row.id]
        /\ UNCHANGED <<profile, food_sources, meals, meal_foods, program_meals,
                       meal_tracking, now, meal_session, food_session,
                       success_message, error_message, last_profile>>

InsertProgramMeal(rows, program_id, meal_id, date, meal_time) ==
    rows \cup {[id |-> NextRowId(rows), program_id |-> program_id,
                meal_id |-> meal_id, date |-> date, meal_time |-> meal_time]}

\* add_meal_to_program: a plain INSERT INTO program_meals; the table has no
\* UNIQUE constraint over (program_id, date, meal_time).
AddMealToProgramRows(rows, program_id, meal_id, date, meal_time) ==
    InsertProgramMeal(rows, program_id, meal_id, date, meal_time)

add_meal_to_program(program_id, meal_id, date, meal_time) ==
    /\ NextRowId(program_meals) <= MaxProgramMealId
    /\ program_meals' =
           AddMealToProgramRows(program_meals, program_id, meal_id, date, meal_time)
    /\ UNCHANGED page_state
    /\ call' = [op |-> "add_meal_to_program", program_id |-> program_id,
                meal_id |-> meal_id, date |-> date, meal_time |-> meal_time]
    /\ result' = "True"
    /\ ret' = None
    /\ UNCHANGED <<profile, food_sources, meals, meal_foods, meal_programs,
                   meal_tracking, now, meal_session, food_session,
                   success_message, error_message, last_profile>>

\* update_program_meal: SELECT the slot; when a row exists, UPDATE ... SET
\* meal_id WHERE program_id, date and meal_time match (every row of the
\* slot), otherwise INSERT one row.
UpdateProgramMealRows(rows, program_id, meal_id, date, meal_time) ==
    LET slot == Slot(rows, program_id, date, meal_time)
    IN  IF slot # {}
        THEN (rows \ slot) \cup {[r EXCEPT !.meal_id = meal_id] : r \in slot}
        ELSE InsertProgramMeal(rows, program_id, meal_id, date, meal_time)

update_program_meal(program_id, meal_id, date, meal_time) ==
    /\ Slot(program_meals, program_id, date, meal_time) = {} =>
           NextRowId(program_meals) <= MaxProgramMealId
    /\ program_meals' =
           UpdateProgramMealRows(program_meals, program_id, meal_id, date, meal_time)
    /\ UNCHANGED page_state
    /\ call' = [op |-> "update_program_meal", program_id |-> program_id,
                meal_id |-> meal_id, date |-> date, meal_time |-> meal_time]
    /\ result' = "True"
    /\ ret' = None
    /\ UNCHANGED <<profile, food_sources, meals, meal_foods, meal_programs,
                   meal_tracking, now, meal_session, food_session,
                   success_message, error_message, last_profile>>

\* delete_program_meal: DELETE FROM program_meals WHERE program_id, date and
\* meal_time match.
delete_program_meal(program_id, date, meal_time) ==
    /\ program_meals' = program_meals \ Slot(program_meals, program_id, date, meal_time)
    /\ UNCHANGED page_state
    /\ call' = [op |-> "delete_program_meal", program_id |-> program_id,
                date |-> date, meal_time |-> meal_time]
    /\ result' = "True"
    /\ ret' = None
    /\ UNCHANGED <<profile, food_sources, meals, meal_foods, meal_programs,
                   meal_tracking, now, meal_session, food_session,
                   success_message, error_message, last_profile>>

\* delete_program: DELETE FROM program_meals WHERE program_id = ?, then
\* DELETE FROM meal_programs WHERE id = ?.
delete_program(program_id) ==
    /\ program_meals' = {r \in program_meals : r.program_id # program_id}
    /\ meal_programs' = {p \in meal_programs : p.id # program_id}
    /\ UNCHANGED page_state
    /\ call' = [op |-> "delete_program", program_id |-> program_id]
    /\ result' = "True"
    /\ ret' = None
    /\ UNCHANGED <<profile, food_sources, meals, meal_foods, meal_tracking, now,
                   meal_session, food_session, success_message,
                   error_message, last_profile>>

\* track_meal: INSERT INTO meal_tracking.
track_meal(date, meal_id, meal_time) ==
    /\ NextRowId(meal_tracking) <= MaxTrackingId
    /\ meal_tracking' = meal_tracking \cup
           {[id |-> NextRowId(meal_tracking), date |-> date, meal_id |-> meal_id,
             meal_time |-> meal_time]}
    /\ UNCHANGED page_state
    /\ call' = [op |-> "track_meal", date |-> date, meal_id |-> meal_id,
                meal_time |-> meal_time]
    /\ result' = "True"
    /\ ret' = None
    /\ UNCHANGED <<profile, food_sources, meals, meal_foods, meal_programs,
                   program_meals, now, meal_session, food_session,
                   success_message, error_message, last_profile>>

----------------------------------------------------------------------------
(* The program-slot operations of NutritionDB, called in any order with any *)
(* program and meal ids                                                     *)

ProgramIdArgs == 1..MaxProgramId
SlotMealArgs == {1, 2}
SlotDateArgs == {"2025-01-01"}
SlotTimeArgs == {"Breakfast", "Lunch"}

NextProgram ==
    \/ save_meal_program("Cut", "2025-01-01", "2025-01-02")
    \/ \E p \in ProgramIdArgs, m \in SlotMealArgs, d \in SlotDateArgs, t \in SlotTimeArgs :
           add_meal_to_program(p, m, d, t)
    \/ \E p \in ProgramIdArgs, m \in SlotMealArgs, d \in SlotDateArgs, t \in SlotTimeArgs :
           update_program_meal(p, m, d, t)
    \/ \E p \in ProgramIdArgs, d \in SlotDateArgs, t \in SlotTimeArgs :
           delete_program_meal(p, d, t)
    \/ \E p \in ProgramIdArgs : delete_program(p)

SpecProgram == Init /\ [][NextProgram]_vars

----------------------------------------------------------------------------
(* Creating, editing and deleting meals through NutritionDB *)

CrudCategories == {"Breakfast", "Snacks"}
CrudFoodData == {[base_unit |-> "g", conversion_factor |-> 1]}
MealIdArgs == 1..MaxMealId
ExistingFoodIds == {f.id : f \in food_sources}

\* The arguments the callers of save_meal and update_meal pass: a regular meal
\* comes with its foods_quantities, a custom meal with its custom_macros.
MealContentArgs ==
    {[fq |-> fq, macros |-> CHOOSE c \in CustomMacros : TRUE] :
        fq \in FoodsQuantities(ExistingFoodIds)}
    \cup {[fq |-> <<>>, macros |-> c] : c \in CustomMacros}

NextMealCrud ==
    \/ \E data \in CrudFoodData : save_food_source("Egg", data)
    \/ \E n \in MealNames, c \in CrudCategories, fq \in FoodsQuantities(ExistingFoodIds) :
           save_meal(n, c, "regular", fq, CHOOSE x \in CustomMacros : TRUE)
    \/ \E n \in MealNames, c \in CrudCategories, x \in CustomMacros :
           save_meal(n, c, "custom", <<>>, x)
    \/ \E id \in MealIdArgs, n \in MealNames, c \in CrudCategories, a \in MealContentArgs :
           update_meal(id, n, c, a.fq, a.macros)
    \/ \E id \in MealIdArgs : delete_meal(id)

SpecMealCrud == Init /\ [][NextMealCrud]_vars

----------------------------------------------------------------------------
(* The Regular Meals and Custom Meals pages: deleting meals                *)

MealPages == {"regular", "custom"}

\* The meals a page lists: get_regular_meals / get_custom_meals.
DisplayedMealIds(page) == {m.id : m \in {x \in meals : x.type = page}}

\* main() of both pages shows only the confirmation dialog while
\* confirm_delete_meals is set, and nothing but a warning without a profile.
MealListRendered == ~confirm_delete_meals /\ profile # {}

\* delete_meals_with_confirmation: stores the request, then asks
\* check_meal_in_programs for every meal.  That function returns a bool, and
\* the loop subscripts its result (program_info['total_programs']) as soon as
\* it is True: TypeError leaves the handler with the request stored and the
\* confirmation flag False.  When no meal is in a program every meal is
\* deleted at once.
delete_meals_with_confirmation(page, meal_ids) ==
    LET in_programs == {id \in meal_ids : check_meal_in_programs(id)}
    IN  /\ MealListRendered
        /\ meal_ids # {}
        /\ meal_ids \subseteq DisplayedMealIds(page)
        /\ confirm_delete_meals' = FALSE
        /\ meals_to_delete' = meal_ids
        /\ delete_info' = delete_info
        /\ UNCHANGED page_state
        /\ call' = [op |-> "delete_meals_with_confirmation", page |-> page,
                    meal_ids |-> meal_ids]
        /\ ret' = None
        /\ IF in_programs # {}
           THEN /\ result' = "TypeError"
                /\ UNCHANGED <<meals, meal_foods, program_meals, meal_tracking,
                               success_message, error_message>>
           ELSE /\ result' = "None"
                /\ DeleteMealEffect(meal_ids)
                /\ error_message' = error_message
                /\ success_message' = [text |-> "Deleted meals",
                                       count |-> Cardinality(meal_ids)]
        /\ UNCHANGED <<profile, food_sources, meal_programs, now, food_session,
                       last_profile>>

\* show_delete_confirmation, Cancel button
meals_cancel_delete ==
    /\ confirm_delete_meals
    /\ confirm_delete_meals' = FALSE
    /\ meals_to_delete' = {}
    /\ delete_info' = None
    /\ UNCHANGED page_state
    /\ call' = [op |-> "meals_cancel_delete"]
    /\ result' = "None"
    /\ ret' = None
    /\ UNCHANGED <<tables, now, food_session, success_message,
                   error_message, last_profile>>

\* show_delete_confirmation, Confirm Delete button
meals_confirm_delete ==
    /\ confirm_delete_meals
    /\ DeleteMealEffect(meals_to_delete)
    /\ error_message' = error_message
    /\ success_message' = [text |-> "Deleted meals and removed them from programs",
                           count |-> Cardinality(meals_to_delete)]
    /\ confirm_delete_meals' = FALSE
    /\ meals_to_delete' = {}
    /\ delete_info' = None
    /\ UNCHANGED page_state
    /\ call' = [op |-> "meals_confirm_delete", meal_ids |-> meals_to_delete]
    /\ result' = "None"
    /\ ret' = None
    /\ UNCHANGED <<profile, food_sources, meal_programs, now, food_session,
                   last_profile>>

\* A session whose user has saved a profile once
InitWithProfile ==
    LET args == CHOOSE a \in ProfileArgs : TRUE
    IN  /\ profile = SaveProfileRows({}, args, 1)
        /\ now = 1
        /\ last_profile = args
        /\ food_sources = {}
        /\ meals = {}
        /\ meal_foods = {}
        /\ meal_programs = {}
        /\ program_meals = {}
        /\ meal_tracking = {}
        /\ confirm_delete_meals = FALSE
        /\ meals_to_delete = {}
        /\ delete_info = None
        /\ confirm_delete_foods = FALSE
        /\ foods_to_delete = {}
        /\ delete_food_info = None
        /\ success_message = None
        /\ error_message = None
    /\ InitPageState
        /\ call = [op |-> "save_profile", args |-> args]
        /\ result = "None"
        /\ ret = None

ExistingMealIds == {m.id : m \in meals}
ExistingProgramIds == {p.id : p \in meal_programs}

\* One food in one quantity, or no food at all
OneFoodQuantities(ids) == {<<>>} \cup {<<[id |-> i, quantity |-> 1]>> : i \in ids}

\* delete_meal called on meals that are scheduled in programs and logged
NextMealDelete ==
    \/ \E data \in CrudFoodData : save_food_source("Egg", data)
    \/ \E n \in MealNames, fq \in OneFoodQuantities(ExistingFoodIds) :
           save_meal(n, "Breakfast", "regular", fq, CHOOSE x \in CustomMacros : TRUE)
    \/ \E n \in MealNames :
           save_meal(n, "Breakfast", "custom", <<>>, CHOOSE x \in CustomMacros : TRUE)
    \/ save_meal_program("Cut", "2025-01-01", "2025-01-02")
    \/ \E p \in ExistingProgramIds, m \in ExistingMealIds, d \in SlotDateArgs :
           update_program_meal(p, m, d, "Breakfast")
    \/ \E m \in ExistingMealIds, d \in SlotDateArgs : track_meal(d, m, "Breakfast")
    \/ \E id \in MealIdArgs : delete_meal(id)

SpecMealDelete == Init /\ [][NextMealDelete]_vars

\* The meal pages of a user who creates meals and schedules them in programs
NextMealPages ==
    \/ \E data \in CrudFoodData : save_food_source("Egg", data)
    \/ \E n \in MealNames, fq \in OneFoodQuantities(ExistingFoodIds) \ {<<>>} :
           save_meal(n, "Breakfast", "regular", fq, CHOOSE x \in CustomMacros : TRUE)
    \/ \E n \in MealNames :
           save_meal(n, "Breakfast", "custom", <<>>, CHOOSE x \in CustomMacros : TRUE)
    \/ save_meal_program("Cut", "2025-01-01", "2025-01-02")
    \/ \E p \in ExistingProgramIds, m \in ExistingMealIds, d \in SlotDateArgs :
           update_program_meal(p, m, d, "Breakfast")
    \/ \E page \in MealPages, ids \in SUBSET MealIdArgs :
           delete_meals_with_confirmation(page, ids)

SpecMealPages == InitWithProfile /\ [][NextMealPages]_vars

----------------------------------------------------------------------------
(* What a deletion would affect: check_food_in_meals, check_meals_in_programs *)

\* The rows of SELECT ... FROM food_sources f JOIN meal_foods mf ON f.id =
\* mf.food_id JOIN meals m ON mf.meal_id = m.id WHERE f.name IN (...)
FoodMealJoin(food_names) ==
    {r \in food_sources \X meal_foods \X meals :
        /\ r[1].id = r[2].food_id
        /\ r[2].meal_id = r[3].id
        /\ r[1].name \in food_names}

\* check_food_in_meals counting the joined rows instead of the meals
check_food_in_meals_rows(food_names) ==
    LET results == FoodMealJoin(food_names)
    IN  IF results = {} THEN None
        ELSE [foods |-> {r[1].name : r \in results},
              total_meals |-> Cardinality(results),
              meal_ids |-> {r[3].id : r \in results}]

\* check_food_in_meals: None without a row; otherwise the foods found, the
\* set of meal ids collected from the rows and its size.
check_food_in_meals(food_names) ==
    LET results == FoodMealJoin(food_names)
        meals_set == {r[3].id : r \in results}
    IN  IF results = {} THEN None
        ELSE [foods |-> {r[1].name : r \in results},
              total_meals |-> Cardinality(meals_set),
              meal_ids |-> meals_set]

\* The rows of ... FROM meal_programs p JOIN program_meals pm ON p.id =
\* pm.program_id WHERE pm.meal_id IN (...)
ProgramMealJoin(meal_ids) ==
    {r \in meal_programs \X program_meals :
        r[1].id = r[2].program_id /\ r[2].meal_id \in meal_ids}

\* check_meals_in_programs: None for an empty list or without a row;
\* otherwise the DISTINCT (p.id, p.name) pairs and their number.
check_meals_in_programs(meal_ids) ==
    LET results == {<<r[1].id, r[1].name>> : r \in ProgramMealJoin(meal_ids)}
    IN  IF meal_ids = {} \/ results = {} THEN None
        ELSE [programs |-> results, total_programs |-> Cardinality(results)]

call_check_food_in_meals(food_names) ==
    /\ UNCHANGED page_state
    /\ call' = [op |-> "check_food_in_meals", food_names |-> food_names]
    /\ ret' = check_food_in_meals(food_names)
    /\ result' = IF ret' = None THEN "None" ELSE "dict"
    /\ UNCHANGED <<tables, now, meal_session, food_session, success_message,
                   error_message,
                   last_profile>>

call_check_meals_in_programs(meal_ids) ==
    /\ UNCHANGED page_state
    /\ call' = [op |-> "check_meals_in_programs", meal_ids |-> meal_ids]
    /\ ret' = check_meals_in_programs(meal_ids)
    /\ result' = IF ret' = None THEN "None" ELSE "dict"
    /\ UNCHANGED <<tables, now, meal_session, food_session, success_message,
                   error_message,
                   last_profile>>

\* delete_multiple_food_sources: returns at once on an empty list.
delete_multiple_food_sources(food_names) ==
    /\ DeleteFoodsEffect(food_names)
    /\ UNCHANGED page_state
    /\ call' = [op |-> "delete_multiple_food_sources", food_names |-> food_names]
    /\ result' = "None"
    /\ ret' = None
    /\ UNCHANGED <<profile, meals, meal_programs, program_meals, meal_tracking,
                   now, meal_session, food_session, success_message,
                   error_message, last_profile>>

\* Foods_quantities over the given foods: one food, or two in id order
FoodsQuantitiesOf(ids, qs) ==
    {<<[id |-> i, quantity |-> q]>> : i \in ids, q \in qs}
    \cup {fq \in {<<[id |-> i, quantity |-> q], [id |-> j, quantity |-> q]>> :
                    i \in ids, j \in ids, q \in qs} : fq[1].id < fq[2].id}

NextBlastRadius ==
    \/ \E n \in FoodNames, data \in CrudFoodData : save_food_source(n, data)
    \/ \E n \in MealNames, fq \in FoodsQuantitiesOf(ExistingFoodIds, {1}) :
           save_meal(n, "Breakfast", "regular", fq, CHOOSE x \in CustomMacros : TRUE)
    \/ save_meal_program("Cut", "2025-01-01", "2025-01-02")
    \/ \E p \in ExistingProgramIds \cap {1}, m \in ExistingMealIds, d \in SlotDateArgs,
          t \in SlotTimeArgs : update_program_meal(p, m, d, t)
    \/ \E n \in FoodNames : delete_multiple_food_sources({n})
    \/ \E names \in SUBSET FoodNames : call_check_food_in_meals(names)
    \/ \E ids \in SUBSET MealIdArgs : call_check_meals_in_programs(ids)

SpecBlastRadius == Init /\ [][NextBlastRadius]_vars

----------------------------------------------------------------------------
(* Saving foods one by one and in batches *)

\* add_food_sources of the data generator: save_food_source for every food of
\* the list, counting the calls that returned True.
RECURSIVE AddFoodSources(_, _)
AddFoodSources(rows, batch) ==
    IF batch = <<>> THEN [rows |-> rows, foods_added |-> 0]
    ELSE LET food == Head(batch)
             rest == AddFoodSources(SaveFoodSourceRows(rows, food.name, food.data),
                                    Tail(batch))
         IN  [rows |-> rest.rows,
              foods_added |-> rest.foods_added +
                  (IF SaveFoodSourceInserts(rows, food.name) THEN 1 ELSE 0)]

add_food_sources(batch) ==
    LET done == AddFoodSources(food_sources, batch)
    IN  /\ \A f \in done.rows : f.id <= MaxFoodId
        /\ food_sources' = done.rows
        /\ UNCHANGED page_state
        /\ call' = [op |-> "add_food_sources", batch |-> batch]
        /\ result' = "None"
        /\ ret' = [foods_added |-> done.foods_added]
        /\ UNCHANGED <<profile, meals, meal_foods, meal_programs, program_meals,
                       meal_tracking, now, meal_session, food_session,
                       success_message, error_message, last_profile>>

FoodBatches ==
    {<<[name |-> "Egg", data |-> d], [name |-> "Oats", data |-> d]>> : d \in FoodData}
    \cup {<<[name |-> "Oats", data |-> d]>> : d \in FoodData}

NextFoodCrud ==
    \/ \E n \in FoodNames, data \in FoodData : save_food_source(n, data)
    \/ \E batch \in FoodBatches : add_food_sources(batch)
    \/ \E n \in FoodNames : delete_multiple_food_sources({n})

SpecFoodCrud == Init /\ [][NextFoodCrud]_vars

----------------------------------------------------------------------------
(* The Manage Foods page: deleting foods *)

\* `if meal_info:` asking for more than one affected meal
FoodsNeedConfirmation_MoreThanOne(food_names) ==
    /\ check_food_in_meals(food_names) # None
    /\ check_food_in_meals(food_names).total_meals > 1

\* `if meal_info:` of delete_food_sources
FoodsNeedConfirmation(food_names) == check_food_in_meals(food_names) # None

\* delete_food_sources: stores the request and looks the foods up in the
\* meals; foods found in a meal wait for the confirmation dialog, with the
\* affected meals and programs kept in delete_food_info, the others are
\* deleted at once.  main() renders the table only while no confirmation is
\* pending.  (refresh_food_editor only renews the key of the table widget.)
delete_food_sources(food_names) ==
    LET meal_info == check_food_in_meals(food_names)
    IN  /\ ~confirm_delete_foods
        /\ food_names # {}
        /\ food_names \subseteq {f.name : f \in food_sources}
        /\ foods_to_delete' = food_names
        /\ UNCHANGED page_state
        /\ call' = [op |-> "delete_food_sources", food_names |-> food_names]
        /\ result' = "None"
        /\ ret' = None
        /\ IF FoodsNeedConfirmation(food_names)
           THEN /\ delete_food_info' =
                      [meal_info |-> meal_info,
                       program_info |-> check_meals_in_programs(meal_info.meal_ids),
                       food_names |-> food_names]
                /\ confirm_delete_foods' = TRUE
                /\ UNCHANGED <<food_sources, meal_foods, success_message,
                               error_message>>
           ELSE /\ DeleteFoodsEffect(food_names)
                /\ error_message' = error_message
                /\ success_message' = [text |-> "Deleted foods successfully",
                                       count |-> Cardinality(food_names)]
                /\ confirm_delete_foods' = FALSE
                /\ delete_food_info' = delete_food_info
        /\ UNCHANGED <<profile, meals, meal_programs, program_meals, meal_tracking,
                       now, meal_session, last_profile>>

\* a Cancel button that closes the dialog but keeps the selection
foods_cancel_delete_KeepsSelection ==
    /\ confirm_delete_foods
    /\ confirm_delete_foods' = FALSE
    /\ delete_food_info' = None
    /\ UNCHANGED page_state
    /\ call' = [op |-> "foods_cancel_delete"]
    /\ result' = "None"
    /\ ret' = None
    /\ UNCHANGED <<tables, now, meal_session, foods_to_delete, success_message,
                   error_message, last_profile>>

\* show_delete_confirmation, Cancel button
foods_cancel_delete ==
    /\ confirm_delete_foods
    /\ confirm_delete_foods' = FALSE
    /\ foods_to_delete' = {}
    /\ delete_food_info' = None
    /\ UNCHANGED page_state
    /\ call' = [op |-> "foods_cancel_delete"]
    /\ result' = "None"
    /\ ret' = None
    /\ UNCHANGED <<tables, now, meal_session, success_message,
                   error_message, last_profile>>

\* show_delete_confirmation, Confirm Delete button
foods_confirm_delete ==
    /\ confirm_delete_foods
    /\ DeleteFoodsEffect(foods_to_delete)
    /\ error_message' = error_message
    /\ success_message' = [text |-> "Deleted foods",
                           count |-> Cardinality(foods_to_delete)]
    /\ confirm_delete_foods' = FALSE
    /\ foods_to_delete' = {}
    /\ delete_food_info' = None
    /\ UNCHANGED page_state
    /\ call' = [op |-> "foods_confirm_delete", food_names |-> foods_to_delete]
    /\ result' = "None"
    /\ ret' = None
    /\ UNCHANGED <<profile, meals, meal_programs, program_meals, meal_tracking,
                   now, meal_session, last_profile>>

NextFoodPage ==
    \/ \E n \in FoodNames, data \in CrudFoodData : save_food_source(n, data)
    \/ \E n \in MealNames, fq \in FoodsQuantitiesOf(ExistingFoodIds, {1}) :
           save_meal(n, "Breakfast", "regular", fq, CHOOSE x \in CustomMacros : TRUE)
    \/ \E id \in MealIdArgs : delete_meal(id)
    \/ \E names \in SUBSET FoodNames : delete_food_sources(names)
    \/ foods_cancel_delete
    \/ foods_confirm_delete

SpecFoodPage == Init /\ [][NextFoodPage]_vars

----------------------------------------------------------------------------
(* Editing and renaming food sources *)

FoodRenames == FoodNames \cup {"Rice"}
FoodIdArgs == 1..MaxFoodId

FoodById(rows, food_id) == {f \in rows : f.id = food_id}

\* update_food_source on a table whose name column is not UNIQUE
UpdateFoodOutcome_NoUnique(rows, food_id, name) == "True"

\* update_food_source: one UPDATE ... WHERE id=?.  The UNIQUE(name) violation
\* is caught and turned into False; an id that matches no row updates
\* nothing and still returns True.
UpdateFoodOutcome(rows, food_id, name) ==
    IF /\ FoodById(rows, food_id) # {}
       /\ \E f \in rows : f.name = name /\ f.id # food_id
    THEN "False"
    ELSE "True"

UpdateFoodRows(rows, food_id, name, data) ==
    {IF f.id = food_id THEN [f EXCEPT !.name = name, !.data = data] ELSE f :
        f \in rows}

update_food_source(food_id, name, data) ==
    LET outcome == UpdateFoodOutcome(food_sources, food_id, name)
    IN  /\ food_sources' = IF outcome = "True"
                           THEN UpdateFoodRows(food_sources, food_id, name, data)
                           ELSE food_sources
        /\ UNCHANGED page_state
        /\ call' = [op |-> "update_food_source", food_id |-> food_id,
                    name |-> name, data |-> data]
        /\ result' = outcome
        /\ ret' = None
        /\ UNCHANGED <<profile, meals, meal_foods, meal_programs, program_meals,
                       meal_tracking, now, meal_session, food_session,
                       success_message, error_message, last_profile>>

NextFoodNames ==
    \/ \E n \in FoodNames, data \in FoodData : save_food_source(n, data)
    \/ \E i \in FoodIdArgs, n \in FoodRenames, data \in FoodData :
           update_food_source(i, n, data)
    \/ \E names \in SUBSET FoodRenames : delete_multiple_food_sources(names)

SpecFoodNames == Init /\ [][NextFoodNames]_vars

----------------------------------------------------------------------------
(* Stored macros of regular and custom meals *)

\* Only save_meal and update_meal write the meals table here, so no rowid is
\* ever handed out twice.
NextMealMacros ==
    \/ \E data \in CrudFoodData : save_food_source("Egg", data)
    \/ \E n \in MealNames, fq \in FoodsQuantities(ExistingFoodIds), x \in CustomMacros :
           save_meal(n, "Breakfast", "regular", fq, x)
    \/ \E n \in MealNames, x \in CustomMacros :
           save_meal(n, "Breakfast", "custom", <<>>, x)
    \/ \E id \in MealIdArgs, n \in MealNames, fq \in FoodsQuantities(ExistingFoodIds),
          x \in CustomMacros : update_meal(id, n, "Snacks", fq, x)

SpecMealMacros == Init /\ [][NextMealMacros]_vars

----------------------------------------------------------------------------
(* The Add Food and Manage Foods pages: writing a food                     *)

BaseUnits == {"g", "ml", "unit"}
GramsPerUnit == {50, 60}
FormNames == {"", "Egg", "Oats"}

\* Python values handed to sqlite3: a str and a float
Text(s) == [text |-> s]
Real(x) == [real |-> x]

\* Column affinities of food_sources.  base_unit is TEXT: a float bound to it
\* is stored as its text.  portion_size and conversion_factor are REAL: a
\* float is kept, and a text that is no number is kept as text.
TextAffinity(v) == IF "real" \in DOMAIN v THEN Text(ToString(v.real) \o ".0") ELSE v
RealAffinity(v) == v

\* save_food_source(name, category, calories, proteins, carbs, fats,
\* portion_size, base_unit, conversion_factor=1.0) and update_food_source
\* with the same tail: the positional arguments that follow `fats` are bound
\* to the parameters in this order, the default filling a missing third one.
BindFoodArgs(args) ==
    [portion_size |-> args[1],
     base_unit |-> args[2],
     conversion_factor |-> IF Len(args) >= 3 THEN args[3] ELSE Real(1)]

StoreFoodColumns(bound) ==
    [portion_size |-> RealAffinity(bound.portion_size),
     base_unit |-> TextAffinity(bound.base_unit),
     conversion_factor |-> RealAffinity(bound.conversion_factor)]

\* The pages pass base_unit and conversion_factor right after fats.
PageFoodData(base_unit, conversion_factor) ==
    StoreFoodColumns(BindFoodArgs(<<Text(base_unit), Real(conversion_factor)>>))

\* The value the pages pass as conversion factor: the entered grams per unit
\* for a unit-based food, 1.0 otherwise.
PageConversionFactor(base_unit, grams) == IF base_unit = "unit" THEN grams ELSE 1

\* Add Food button -> add_food_source: an empty name is refused with an error
\* message; otherwise db.save_food_source decides between the two messages.
add_food_source(name, base_unit, grams) ==
    LET data == PageFoodData(base_unit, PageConversionFactor(base_unit, grams))
        saved == name # "" /\ SaveFoodSourceInserts(food_sources, name)
    IN  /\ saved => NextRowId(food_sources) <= MaxFoodId
        /\ food_sources' = IF name = "" THEN food_sources
                           ELSE SaveFoodSourceRows(food_sources, name, data)
        /\ IF saved
           THEN /\ success_message' = [text |-> "Food added", name |-> name]
                /\ error_message' = error_message
           ELSE /\ error_message' = [text |-> IF name = ""
                                              THEN "Please enter a food name"
                                              ELSE "Name already exists",
                                     name |-> name]
                /\ success_message' = success_message
        /\ UNCHANGED page_state
        /\ call' = [op |-> "add_food_source", name |-> name,
                    base_unit |-> base_unit, grams |-> grams]
        /\ result' = IF saved THEN "True" ELSE "False"
        /\ ret' = None
        /\ UNCHANGED <<profile, meals, meal_foods, meal_programs, program_meals,
                       meal_tracking, now, meal_session, food_session,
                       last_profile>>

\* Manage Foods: a row of the editor was changed and is not ticked for
\* deletion -> update_food_source of the page, which calls
\* db.update_food_source and sets one of the two messages.
manage_update_food_source(food_id, name, base_unit, grams) ==
    LET data == PageFoodData(base_unit, PageConversionFactor(base_unit, grams))
        outcome == UpdateFoodOutcome(food_sources, food_id, name)
    IN  /\ ~confirm_delete_foods
        /\ \E f \in FoodById(food_sources, food_id) :
               ~ (/\ f.name = name
                  /\ f.data.base_unit = Text(base_unit)
                  /\ f.data.conversion_factor = Real(grams))
        /\ food_sources' = IF outcome = "True"
                           THEN UpdateFoodRows(food_sources, food_id, name, data)
                           ELSE food_sources
        /\ IF outcome = "True"
           THEN /\ success_message' = [text |-> "Food updates saved", name |-> name]
                /\ error_message' = error_message
           ELSE /\ error_message' = [text |-> "Update failed", name |-> name]
                /\ success_message' = success_message
        /\ UNCHANGED page_state
        /\ call' = [op |-> "manage_update_food_source", food_id |-> food_id,
                    name |-> name, base_unit |-> base_unit, grams |-> grams]
        /\ result' = outcome
        /\ ret' = None
        /\ UNCHANGED <<profile, meals, meal_foods, meal_programs, program_meals,
                       meal_tracking, now, meal_session, food_session,
                       last_profile>>

NextFoodForms ==
    \/ \E n \in FormNames, u \in BaseUnits, g \in GramsPerUnit :
           add_food_source(n, u, g)
    \/ \E i \in FoodIdArgs, n \in FormNames \ {""}, u \in BaseUnits, g \in GramsPerUnit :
           manage_update_food_source(i, n, u, g)

SpecFoodForms == Init /\ [][NextFoodForms]_vars

----------------------------------------------------------------------------
(* Arithmetic of utils/nutrition.py.  Python floats are modelled as exact   *)
(* rationals in lowest terms with a positive denominator; the rounding of   *)
(* IEEE-754 operations is not modelled.                                     *)

RECURSIVE GCD(_, _)
GCD(a, b) == IF b = 0 THEN a ELSE GCD(b, a % b)

Abs(n) == IF n < 0 THEN -n ELSE n

Rat(n, d) ==
    LET g == GCD(Abs(n), Abs(d))
        s == IF d < 0 THEN -1 ELSE 1
    IN  [num |-> s * (n \div g), den |-> s * (d \div g)]

RatAdd(a, b) == Rat(a.num * b.den + b.num * a.den, a.den * b.den)
RatSub(a, b) == Rat(a.num * b.den - b.num * a.den, a.den * b.den)
RatMul(a, b) == Rat(a.num * b.num, a.den * b.den)
RatDiv(a, b) == Rat(a.num * b.den, a.den * b.num)
RatLess(a, b) == a.num * b.den < b.num * a.den
RatLeq(a, b) == a.num * b.den <= b.num * a.den
RatAbs(a) == Rat(Abs(a.num), a.den)

\* Python round(x, 0): the nearest whole number, a tie going to the even one
Round0(a) ==
    LET low == a.num \div a.den
        twice == 2 * (a.num - low * a.den)
    IN  IF twice < a.den THEN Rat(low, 1)
        ELSE IF twice > a.den THEN Rat(low + 1, 1)
        ELSE IF low % 2 = 0 THEN Rat(low, 1)
        ELSE Rat(low + 1, 1)

\* Python round(x, 1)
Round1(a) == RatDiv(Round0(RatMul(a, Rat(10, 1))), Rat(10, 1))

----------------------------------------------------------------------------
(* Macros of a food and of a meal *)

MaxQuantity == 6       \* largest quantity passed to calculate_food_macros

\* Nutrition values per 100 g/ml of the foods explored
FoodNutrients == {[calories |-> Rat(155, 1), proteins |-> Rat(13, 1),
                   carbs |-> Rat(11, 10), fats |-> Rat(11, 1)],
                  [calories |-> Rat(389, 1), proteins |-> Rat(169, 10),
                   carbs |-> Rat(663, 10), fats |-> Rat(69, 10)]}

MacroFoods ==
    {[nutrients |-> n, base_unit |-> u, conversion_factor |-> Rat(c, 1)] :
        n \in FoodNutrients, u \in BaseUnits, c \in {1} \cup GramsPerUnit}

\* calculate_food_macros with the unit-based branch dropping conversion_factor
FoodFactor_NoConversion(food, quantity) == RatDiv(quantity, Rat(100, 1))

\* The factor of calculate_food_macros: quantity / 100 for 'g' and 'ml',
\* quantity * conversion_factor / 100 for every other base_unit.
FoodFactor(food, quantity) ==
    IF food.base_unit \in {"g", "ml"}
    THEN RatDiv(quantity, Rat(100, 1))
    ELSE RatDiv(RatMul(quantity, food.conversion_factor), Rat(100, 1))

calculate_food_macros(food, quantity) ==
    LET factor == FoodFactor(food, quantity)
    IN  [calories |-> RatMul(food.nutrients.calories, factor),
         proteins |-> RatMul(food.nutrients.proteins, factor),
         carbs |-> RatMul(food.nutrients.carbs, factor),
         fats |-> RatMul(food.nutrients.fats, factor)]

call_calculate_food_macros(food, quantity) ==
    /\ UNCHANGED page_state
    /\ call' = [op |-> "calculate_food_macros", food |-> food, quantity |-> quantity]
    /\ ret' = calculate_food_macros(food, Rat(quantity, 1))
    /\ result' = "dict"
    /\ UNCHANGED <<tables, now, meal_session, food_session, success_message,
                   error_message, last_profile>>

NextFoodMacros ==
    \E food \in MacroFoods, quantity \in 0..MaxQuantity :
        call_calculate_food_macros(food, quantity)

SpecFoodMacros == Init /\ [][NextFoodMacros]_vars

----------------------------------------------------------------------------
(* Totals of a regular meal: computed from the form, and from the stored meal *)

RECURSIVE SumMacros(_)
SumMacros(list) ==
    IF list = <<>>
    THEN [calories |-> Rat(0, 1), proteins |-> Rat(0, 1),
          carbs |-> Rat(0, 1), fats |-> Rat(0, 1)]
    ELSE LET rest == SumMacros(Tail(list))
             macros == Head(list)
         IN  [calories |-> RatAdd(macros.calories, rest.calories),
              proteins |-> RatAdd(macros.proteins, rest.proteins),
              carbs |-> RatAdd(macros.carbs, rest.carbs),
              fats |-> RatAdd(macros.fats, rest.fats)]

RoundMacros(total) ==
    [calories |-> Round1(total.calories), proteins |-> Round1(total.proteins),
     carbs |-> Round1(total.carbs), fats |-> Round1(total.fats)]

NoMacros == [calories |-> Rat(0, 1), proteins |-> Rat(0, 1),
             carbs |-> Rat(0, 1), fats |-> Rat(0, 1)]

\* calculate_meal_macros, case 1: a frame of foods and a dict of quantities
\* keyed by food name.  An entry counts when its quantity is positive and
\* the frame has a food of that name.
MacrosOfQuantities(foods_df, quantities) ==
    [i \in 1..Len(quantities) |->
        LET entry == quantities[i]
            food == FoodNamed(foods_df, entry.name)
        IN  IF entry.quantity > 0 /\ food # {}
            THEN calculate_food_macros((CHOOSE f \in food : TRUE).data,
                                       Rat(entry.quantity, 1))
            ELSE NoMacros]

calculate_meal_macros_df(foods_df, quantities) ==
    RoundMacros(SumMacros(MacrosOfQuantities(foods_df, quantities)))

\* calculate_meal_macros, case 2: a list of food dicts that carry their
\* quantity.
MacrosOfFoodList(foods) ==
    [i \in 1..Len(foods) |->
        IF foods[i].quantity > 0
        THEN calculate_food_macros(foods[i].data, Rat(foods[i].quantity, 1))
        ELSE NoMacros]

calculate_meal_macros_list(foods) ==
    RoundMacros(SumMacros(MacrosOfFoodList(foods)))

\* The rows of a table in rowid order
RECURSIVE RowsInOrder(_)
RowsInOrder(rows) ==
    IF rows = {} THEN <<>>
    ELSE LET first == CHOOSE r \in rows : \A s \in rows : r.id <= s.id
         IN  <<first>> \o RowsInOrder(rows \ {first})

\* The join of get_meal_with_foods without its WHERE mf.meal_id = ?
MealFoodsJoin_AllMeals(meal_id) ==
    LET used == RowsInOrder({mf \in meal_foods :
                                \E f \in food_sources : f.id = mf.food_id})
    IN  [i \in 1..Len(used) |->
            LET f == CHOOSE f \in food_sources : f.id = used[i].food_id
            IN  [id |-> f.id, name |-> f.name, data |-> f.data,
                 quantity |-> used[i].quantity]]

\* SELECT f.*, mf.quantity FROM food_sources f JOIN meal_foods mf
\* ON f.id = mf.food_id WHERE mf.meal_id = ?
MealFoodsJoin(meal_id) ==
    LET used == RowsInOrder({mf \in meal_foods :
                                /\ mf.meal_id = meal_id
                                /\ \E f \in food_sources : f.id = mf.food_id})
    IN  [i \in 1..Len(used) |->
            LET f == CHOOSE f \in food_sources : f.id = used[i].food_id
            IN  [id |-> f.id, name |-> f.name, data |-> f.data,
                 quantity |-> used[i].quantity]]

\* get_meal_with_foods: None for an unknown id; the meal row, with the key
\* 'foods' added when the meal is regular.
get_meal_with_foods(meal_id) ==
    IF MealById(meals, meal_id) = {} THEN None
    ELSE LET meal == CHOOSE m \in MealById(meals, meal_id) : TRUE
         IN  IF meal.type = "regular"
             THEN [meal |-> meal, foods |-> MealFoodsJoin(meal_id)]
             ELSE [meal |-> meal]

\* The two foods of the round trip: eggs counted by the piece of 50 g, oats
\* weighed in grams.
RoundTripFoods ==
    {[name |-> "Egg",
      data |-> [nutrients |-> [calories |-> Rat(155, 1), proteins |-> Rat(13, 1),
                               carbs |-> Rat(11, 10), fats |-> Rat(11, 1)],
                base_unit |-> "unit", conversion_factor |-> Rat(50, 1)]],
     [name |-> "Oats",
      data |-> [nutrients |-> [calories |-> Rat(389, 1), proteins |-> Rat(169, 10),
                               carbs |-> Rat(663, 10), fats |-> Rat(69, 10)],
                base_unit |-> "g", conversion_factor |-> Rat(1, 1)]]}

\* The dict `quantities` the food slots of the Create Meal page build: one
\* entry per selected food with a positive quantity, in slot order.
SlotQuantities ==
    LET entries == {[name |-> f.name, id |-> f.id, quantity |-> q] :
                        f \in food_sources, q \in Quantities}
    IN  {<<e>> : e \in entries}
        \cup {q \in {<<d, e>> : d \in entries, e \in entries} :
                 q[1].name # q[2].name /\ q[1].quantity = 1}

\* Create Meal page, Save Meal button of create_regular_meal: the summary
\* shown is calculate_meal_macros(foods_df, quantities), then db.save_meal.
create_regular_meal(meal_name, category, quantities) ==
    LET macros == calculate_meal_macros_df(food_sources, quantities)
        outcome == SaveMealOutcome(meals, meal_name)
        row == SaveMealRow(meals, meal_name, category, "regular", macros)
    IN  /\ profile # {}
        /\ food_sources # {}
        /\ outcome = "True" => row.id <= MaxMealId
        /\ outcome = "True" => MealFoodIdsFit(meal_foods, quantities)
        /\ meals' = IF outcome = "True" THEN meals \cup {row} ELSE meals
        /\ meal_foods' = IF outcome = "True"
                         THEN InsertMealFoods(meal_foods, row.id, quantities)
                         ELSE meal_foods
        /\ success_message' = IF outcome = "True"
                              THEN [text |-> "Meal saved", name |-> meal_name]
                              ELSE success_message
        /\ UNCHANGED page_state
        /\ call' = [op |-> "create_regular_meal", name |-> meal_name,
                    quantities |-> quantities]
        /\ result' = outcome
        /\ ret' = macros
        /\ UNCHANGED <<profile, food_sources, meal_programs, program_meals,
                       meal_tracking, now, meal_session, food_session,
                       error_message, last_profile>>

NextMealRoundTrip ==
    \/ \E food \in RoundTripFoods : save_food_source(food.name, food.data)
    \/ \E n \in MealNames, q \in SlotQuantities :
           create_regular_meal(n, "Breakfast", q)
    \/ \E id \in MealIdArgs : delete_meal(id)

SpecMealRoundTrip == InitWithProfile /\ [][NextMealRoundTrip]_vars

----------------------------------------------------------------------------
(* calculate_macro_targets *)

MaxCalorieStep == 20   \* target calories explored: 500 + 62.5 * (0..MaxCalorieStep)

\* NutritionConstants
PROTEIN_CALORIES_PER_GRAM == Rat(4, 1)
CARB_CALORIES_PER_GRAM == Rat(4, 1)
FAT_CALORIES_PER_GRAM == Rat(9, 1)
DEFAULT_CARB_PERCENTAGE == Rat(45, 1)
DEFAULT_FAT_PERCENTAGE == Rat(25, 1)
PROTEIN_PER_KG_BODYWEIGHT == Rat(2, 1)

BodyWeights == {Rat(60, 1), Rat(281, 4), Rat(165, 2), Rat(110, 1)}
TargetCalories == {Rat(1000 + 125 * k, 2) : k \in 0..MaxCalorieStep}

\* The optional arguments: left out (None), zero, or given
MacroOptions ==
    {[protein_per_kg |-> None, carb_percentage |-> None, fat_percentage |-> None],
     [protein_per_kg |-> Rat(9, 5), carb_percentage |-> Rat(50, 1),
      fat_percentage |-> Rat(30, 1)],
     [protein_per_kg |-> Rat(0, 1), carb_percentage |-> Rat(40, 1),
      fat_percentage |-> Rat(0, 1)]}

\* Python `value or default`: the default replaces None and zero
OrDefault(value, default) ==
    IF value = None \/ value = Rat(0, 1) THEN default ELSE value

\* calculate_macro_targets taking the percentages as shares of the
\* remaining calories without rescaling them to 100
AdjustedPercentage_Raw(percentage, total_percentage) == percentage

AdjustedPercentage(percentage, total_percentage) ==
    RatMul(RatDiv(percentage, total_percentage), Rat(100, 1))

calculate_macro_targets(weight, target_calories, options) ==
    LET protein_per_kg == OrDefault(options.protein_per_kg, PROTEIN_PER_KG_BODYWEIGHT)
        carb_percentage == OrDefault(options.carb_percentage, DEFAULT_CARB_PERCENTAGE)
        fat_percentage == OrDefault(options.fat_percentage, DEFAULT_FAT_PERCENTAGE)
        protein_target == RatMul(weight, protein_per_kg)
        protein_calories == RatMul(protein_target, PROTEIN_CALORIES_PER_GRAM)
        remaining_calories == RatSub(target_calories, protein_calories)
        total_percentage == RatAdd(carb_percentage, fat_percentage)
        adjusted_carb_percentage == AdjustedPercentage(carb_percentage, total_percentage)
        adjusted_fat_percentage == AdjustedPercentage(fat_percentage, total_percentage)
        carbs_target ==
            RatDiv(RatMul(remaining_calories,
                          RatDiv(adjusted_carb_percentage, Rat(100, 1))),
                   CARB_CALORIES_PER_GRAM)
        fats_target ==
            RatDiv(RatMul(remaining_calories,
                          RatDiv(adjusted_fat_percentage, Rat(100, 1))),
                   FAT_CALORIES_PER_GRAM)
    IN  [protein |-> Round0(protein_target),
         carbs |-> Round0(carbs_target),
         fats |-> Round0(fats_target)]

call_calculate_macro_targets(weight, target_calories, options) ==
    /\ UNCHANGED page_state
    /\ call' = [op |-> "calculate_macro_targets", weight |-> weight,
                target_calories |-> target_calories, options |-> options]
    /\ ret' = calculate_macro_targets(weight, target_calories, options)
    /\ result' = "dict"
    /\ UNCHANGED <<tables, now, meal_session, food_session, success_message,
                   error_message, last_profile>>

NextMacroTargets ==
    \E weight \in BodyWeights, target_calories \in TargetCalories,
       options \in MacroOptions :
        call_calculate_macro_targets(weight, target_calories, options)

SpecMacroTargets == Init /\ [][NextMacroTargets]_vars

----------------------------------------------------------------------------
(* calculate_bmr, calculate_tdee and calculate_target_calories *)

MaxBmrStep == 20       \* BMR values explored: 1200 + 50 * (0..MaxBmrStep)
MaxTdeeStep == 6       \* TDEE values explored: 1500 + 150 * (0..MaxTdeeStep)

BmrWeights == BodyWeights \cup {Rat(70, 1)}
BmrHeights == {Rat(8, 5), Rat(7, 4), Rat(91, 50)}
BmrAges == {30, 45, 60}
BmrGenders == {"Male", "Female", "Other"}

\* calculate_bmr adding +5 for every gender but 'Female'
BmrOffset_FemaleOnly(gender) == IF gender = "Female" THEN Rat(-161, 1) ELSE Rat(5, 1)

\* The last term of calculate_bmr: + 5 for 'Male', - 161 in the else branch
BmrOffset(gender) == IF gender = "Male" THEN Rat(5, 1) ELSE Rat(-161, 1)

\* 10 * weight + 6.25 * height * 100 - 5 * age, then the gender's offset
calculate_bmr(weight, height, age, gender) ==
    RatAdd(RatSub(RatAdd(RatMul(Rat(10, 1), weight),
                         RatMul(RatMul(Rat(25, 4), height), Rat(100, 1))),
                  RatMul(Rat(5, 1), Rat(age, 1))),
           BmrOffset(gender))

call_calculate_bmr(weight, height, age, gender) ==
    /\ UNCHANGED page_state
    /\ call' = [op |-> "calculate_bmr", weight |-> weight, height |-> height,
                age |-> age, gender |-> gender]
    /\ ret' = calculate_bmr(weight, height, age, gender)
    /\ result' = "float"
    /\ UNCHANGED <<tables, now, meal_session, food_session, success_message,
                   error_message, last_profile>>

NextBmr ==
    \E weight \in BmrWeights, height \in BmrHeights, age \in BmrAges,
       gender \in BmrGenders : call_calculate_bmr(weight, height, age, gender)

SpecBmr == Init /\ [][NextBmr]_vars

\* ActivityLevel: the four members and their values
ActivityLevelValues ==
    {"Sedentary", "Lightly Active", "Very Active", "Extremely Active"}
ActivityLevelArgs == ActivityLevelValues \cup {"Moderately Active", "sedentary"}
BmrValues == {Rat(1200 + 50 * k, 1) : k \in 0..MaxBmrStep}

\* ActivityLevel.get_multiplier falling back to 1.2 for an unknown string
get_multiplier_Fallback(level) ==
    IF level = "Lightly Active" THEN Rat(31, 25)
    ELSE IF level = "Very Active" THEN Rat(7, 5)
    ELSE IF level = "Extremely Active" THEN Rat(81, 50)
    ELSE Rat(6, 5)

\* ActivityLevel.get_multiplier for a string: the multiplier of the member
\* whose value is the string, ValueError when no member has it.
get_multiplier(level) ==
    IF level = "Sedentary" THEN Rat(6, 5)
    ELSE IF level = "Lightly Active" THEN Rat(31, 25)
    ELSE IF level = "Very Active" THEN Rat(7, 5)
    ELSE IF level = "Extremely Active" THEN Rat(81, 50)
    ELSE [raises |-> "ValueError"]

\* calculate_tdee: bmr * get_multiplier(activity_level); the ValueError of
\* get_multiplier is not caught.
call_calculate_tdee(bmr, activity_level) ==
    LET multiplier == get_multiplier(activity_level)
    IN  /\ UNCHANGED page_state
        /\ call' = [op |-> "calculate_tdee", bmr |-> bmr,
                    activity_level |-> activity_level]
        /\ IF "raises" \in DOMAIN multiplier
           THEN ret' = None /\ result' = multiplier.raises
           ELSE ret' = RatMul(bmr, multiplier) /\ result' = "float"
        /\ UNCHANGED <<tables, now, meal_session, food_session, success_message,
                       error_message, last_profile>>

NextTdee ==
    \E bmr \in BmrValues, level \in ActivityLevelArgs : call_calculate_tdee(bmr, level)

SpecTdee == Init /\ [][NextTdee]_vars

GoalTypeArgs == GoalTypes \cup {"Bulk"}
GoalPercentages == {Rat(0, 1), Rat(10, 1), Rat(25, 2), Rat(20, 1)}
TdeeValues == {Rat(1500 + 150 * k, 1) : k \in 0..MaxTdeeStep}

\* calculate_target_calories adding the percentage for both goals
GoalFactor_AlwaysUp(goal_type, goal_percentage) ==
    IF goal_type \in {"Weight Loss", "Weight Gain"}
    THEN RatAdd(Rat(1, 1), RatDiv(goal_percentage, Rat(100, 1)))
    ELSE Rat(1, 1)

\* The factor calculate_target_calories applies to tdee; the else branch
\* returns tdee itself.
GoalFactor(goal_type, goal_percentage) ==
    IF goal_type = "Weight Loss"
    THEN RatSub(Rat(1, 1), RatDiv(goal_percentage, Rat(100, 1)))
    ELSE IF goal_type = "Weight Gain"
    THEN RatAdd(Rat(1, 1), RatDiv(goal_percentage, Rat(100, 1)))
    ELSE Rat(1, 1)

calculate_target_calories(tdee, goal_type, goal_percentage) ==
    RatMul(tdee, GoalFactor(goal_type, goal_percentage))

call_calculate_target_calories(tdee, goal_type, goal_percentage) ==
    /\ UNCHANGED page_state
    /\ call' = [op |-> "calculate_target_calories", tdee |-> tdee,
                goal_type |-> goal_type, goal_percentage |-> goal_percentage]
    /\ ret' = calculate_target_calories(tdee, goal_type, goal_percentage)
    /\ result' = "float"
    /\ UNCHANGED <<tables, now, meal_session, food_session, success_message,
                   error_message, last_profile>>

NextTargetCalories ==
    \E tdee \in TdeeValues, goal_type \in GoalTypeArgs, p \in GoalPercentages :
        call_calculate_target_calories(tdee, goal_type, p)

SpecTargetCalories == Init /\ [][NextTargetCalories]_vars

----------------------------------------------------------------------------
(* Program Adherence page: adherence per meal time *)

\* The days of the program explored, in calendar order
AdherenceDates == <<"2025-01-01", "2025-01-02">>
AdherenceTimes == {"Breakfast", "Lunch"}

DayOf(date) == CHOOSE i \in 1..Len(AdherenceDates) : AdherenceDates[i] = date
InDateRange(date, start_date, end_date) ==
    DayOf(start_date) <= DayOf(date) /\ DayOf(date) <= DayOf(end_date)

\* db.get_program_meals(program_id): program_meals JOIN meals
get_program_meals(program_id) ==
    {pm \in program_meals :
        pm.program_id = program_id /\ \E m \in meals : m.id = pm.meal_id}

\* get_planned_meals: the program's meals whose date lies in the range
get_planned_meals(program_id, start_date, end_date) ==
    {pm \in get_program_meals(program_id) :
        InDateRange(pm.date, start_date, end_date)}

\* get_tracked_meals of the page: db.get_tracked_meals(date), which is
\* meal_tracking JOIN meals for one date, for every date of the range
get_tracked_meals(start_date, end_date) ==
    {mt \in meal_tracking :
        /\ InDateRange(mt.date, start_date, end_date)
        /\ \E m \in meals : m.id = mt.meal_id}

\* calculate_meal_time_adherence: per meal time, the planned rows and the
\* tracked rows of that meal time are counted, each over the whole range;
\* a meal time with planned rows gets min(100, round(tracked / planned *
\* 100, 1)).  An empty frame comes back when either input is empty.
calculate_meal_time_adherence(planned_meals, tracked_meals) ==
    IF planned_meals = {} \/ tracked_meals = {} THEN {}
    ELSE LET planned(t) == Cardinality({pm \in planned_meals : pm.meal_time = t})
             tracked(t) == Cardinality({mt \in tracked_meals : mt.meal_time = t})
             adherence(t) == Round1(RatMul(Rat(tracked(t), planned(t)), Rat(100, 1)))
         IN  {[meal_time |-> t, planned |-> planned(t), tracked |-> tracked(t),
               adherence |-> IF RatLess(Rat(100, 1), adherence(t))
                             THEN Rat(100, 1) ELSE adherence(t)] :
                 t \in {x \in MealTimes : planned(x) > 0}}

\* main of the page, for a chosen program and comparison range: it stops
\* with a warning when there are no planned or no tracked meals in the
\* range, and computes the meal time adherence otherwise.
show_meal_time_adherence(program_id, start_date, end_date) ==
    LET planned_meals == get_planned_meals(program_id, start_date, end_date)
        tracked_meals == get_tracked_meals(start_date, end_date)
    IN  /\ profile # {}
        /\ \E p \in meal_programs : p.id = program_id
        /\ DayOf(start_date) <= DayOf(end_date)
        /\ planned_meals # {}
        /\ tracked_meals # {}
        /\ UNCHANGED page_state
        /\ call' = [op |-> "calculate_meal_time_adherence",
                    program_id |-> program_id, start_date |-> start_date,
                    end_date |-> end_date]
        /\ ret' = [adherence_df |->
                      calculate_meal_time_adherence(planned_meals, tracked_meals)]
        /\ result' = "DataFrame"
        /\ UNCHANGED <<tables, now, meal_session, food_session, success_message,
                       error_message, last_profile>>

AdherenceDateSet == {AdherenceDates[i] : i \in 1..Len(AdherenceDates)}

NextAdherence ==
    \/ save_meal("Porridge", "Breakfast", "custom", <<>>, CHOOSE x \in CustomMacros : TRUE)
    \/ save_meal_program("Cut", AdherenceDates[1], AdherenceDates[Len(AdherenceDates)])
    \/ \E p \in ExistingProgramIds, m \in ExistingMealIds, d \in AdherenceDateSet,
          t \in AdherenceTimes : update_program_meal(p, m, d, t)
    \/ \E m \in ExistingMealIds, d \in AdherenceDateSet, t \in AdherenceTimes :
           track_meal(d, m, t)
    \/ \E p \in ExistingProgramIds, s \in AdherenceDateSet, e \in AdherenceDateSet :
           show_meal_time_adherence(p, s, e)

SpecAdherence == InitWithProfile /\ [][NextAdherence]_vars

----------------------------------------------------------------------------
(* Replacing the ingredients of a regular meal *)

NextMealFoods ==
    \/ \E n \in FoodNames, data \in CrudFoodData : save_food_source(n, data)
    \/ \E n \in MealNames, fq \in OneFoodQuantities(ExistingFoodIds) :
           save_meal(n, "Breakfast", "regular", fq, CHOOSE x \in CustomMacros : TRUE)
    \/ \E id \in ExistingMealIds, fq \in FoodsQuantities(ExistingFoodIds) :
           update_meal(id, (CHOOSE m \in MealById(meals, id) : TRUE).name,
                       "Breakfast", fq, None)

SpecMealFoods == Init /\ [][NextMealFoods]_vars

----------------------------------------------------------------------------
(* Success and error messages (utils/ui.py) *)

\* `if st.session_state.success_message:` -- None and "" are not shown
Truthy(message) == message # None /\ message.text # ""

Messages == {Text(""), Text("Saved"), Text("Failed")}

set_success_message(message) ==
    /\ success_message' = message
    /\ UNCHANGED page_state
    /\ call' = [op |-> "set_success_message", message |-> message]
    /\ result' = "None"
    /\ ret' = None
    /\ UNCHANGED <<tables, now, meal_session, food_session, error_message,
                   last_profile>>

set_error_message(message) ==
    /\ error_message' = message
    /\ UNCHANGED page_state
    /\ call' = [op |-> "set_error_message", message |-> message]
    /\ result' = "None"
    /\ ret' = None
    /\ UNCHANGED <<tables, now, meal_session, food_session, success_message,
                   last_profile>>

\* display_success_error that shows the messages and leaves them set
display_success_error_NoClear ==
    /\ UNCHANGED page_state
    /\ call' = [op |-> "display_success_error"]
    /\ result' = "None"
    /\ ret' = [success |-> IF Truthy(success_message) THEN success_message ELSE None,
               error |-> IF Truthy(error_message) THEN error_message ELSE None]
    /\ UNCHANGED <<tables, now, meal_session, food_session, success_message,
                   error_message, last_profile>>

\* display_success_error, called once by every render of a page: ret records
\* what st.success and st.error were given
display_success_error ==
    /\ success_message' = IF Truthy(success_message) THEN None ELSE success_message
    /\ error_message' = IF Truthy(error_message) THEN None ELSE error_message
    /\ UNCHANGED page_state
    /\ call' = [op |-> "display_success_error"]
    /\ result' = "None"
    /\ ret' = [success |-> IF Truthy(success_message) THEN success_message ELSE None,
               error |-> IF Truthy(error_message) THEN error_message ELSE None]
    /\ UNCHANGED <<tables, now, meal_session, food_session, last_profile>>

\* The Add Food page with its messages, and the two setters called directly
NextMessages ==
    \/ \E n \in FormNames : add_food_source(n, "g", 1)
    \/ \E message \in Messages : set_success_message(message)
    \/ \E message \in Messages : set_error_message(message)
    \/ display_success_error

SpecMessages == Init /\ [][NextMessages]_vars

----------------------------------------------------------------------------
(* Create Program and View Programs pages *)

\* A value kept in the session, as opposed to None
Some(v) == [value |-> v]

DAYS_PER_PAGE == 7

\* MealTime.get_category
get_category(meal_time) ==
    CASE meal_time = "Breakfast" -> "Breakfast"
      [] meal_time \in {"Morning Snack", "Afternoon Snack"} -> "Snacks"
      [] meal_time \in {"Lunch", "Dinner"} -> "Lunch/Dinner"

\* The program names and durations (days) entered on the Create Program page
ProgramNames == {"Cut", "Bulk"}
ProgramDurations == {7, 8}

\* Day n of January 2025 as strftime('%Y-%m-%d') writes it, and back
ProgramDate(n) ==
    IF n < 10 THEN "2025-01-0" \o ToString(n) ELSE "2025-01-" \o ToString(n)
DayNumber(date) == CHOOSE n \in 1..Max(ProgramDurations) : ProgramDate(n) = date

\* len(pd.date_range(start_date, end_date))
ProgramDays(p) == DayNumber(p.end_date) - DayNumber(p.start_date) + 1

\* total_pages of main() in view_programs.py
TotalPages(p) ==
    ProgramDays(p) \div DAYS_PER_PAGE
        + (IF ProgramDays(p) % DAYS_PER_PAGE > 0 THEN 1 ELSE 0)

\* `.iloc[0]` of a frame read with SELECT *: the row with the lowest rowid
FirstRow(rows) == CHOOSE r \in rows : \A q \in rows : r.id <= q.id

ProgramsNamed(name) == {p \in meal_programs : p.name = name}

\* The select box of View Programs (index=0, no key): the name the user
\* chose while the list of names stayed the same, otherwise the first name.
SelectedProgramName ==
    IF selected_program # None /\ ProgramsNamed(selected_program.value) # {}
    THEN selected_program.value
    ELSE FirstRow(meal_programs).name

\* program_data = programs[programs['name'] == selected_program].iloc[0]
DisplayedProgram == FirstRow(ProgramsNamed(SelectedProgramName))

\* main() of view_programs.py reaches the pagination controls: there is a
\* program and get_program_meals finds a meal in the displayed one
PaginationShown ==
    meal_programs # {} /\ get_program_meals(DisplayedProgram.id) # {}

\* current_dates = dates[start_idx:end_idx], as day numbers
CurrentDays ==
    LET first == DayNumber(DisplayedProgram.start_date)
        start_idx == current_page * DAYS_PER_PAGE
        end_idx == IF start_idx + DAYS_PER_PAGE < ProgramDays(DisplayedProgram)
                   THEN start_idx + DAYS_PER_PAGE ELSE ProgramDays(DisplayedProgram)
    IN  {first + i : i \in start_idx..(end_idx - 1)}

\* Create Program button: save_meal_program gives the program of the entered
\* name, start date and duration; its id becomes current_program_id.  The
\* widgets of the other pages are not rendered and lose their values.
create_program(name, duration) ==
    LET row == [id |-> NextRowId(meal_programs), name |-> name,
                start_date |-> ProgramDate(1), end_date |-> ProgramDate(duration)]
    IN  /\ name # ""
        /\ row.id <= MaxProgramId
        /\ meal_programs' = meal_programs \cup {row}
        /\ current_program_id' = Some(row.id)
        /\ create_program_tab' = "assign"
        /\ selected_program' = None
        /\ success_message' = [text |-> "Program created", name |-> name]
        /\ call' = [op |-> "create_program", name |-> name, duration |-> duration]
        /\ result' = "None"
        /\ ret' = None
        /\ UNCHANGED <<profile, food_sources, meals, meal_foods, program_meals,
                       meal_tracking, now, meal_session, food_session,
                       error_message, current_page, editing_meal, selected_cats,
                       in_flight, last_profile>>

\* Create Another Program button, shown with the tabs
create_another_program ==
    /\ create_program_tab # "details"
    /\ current_program_id # None
    /\ current_program_id' = None
    /\ create_program_tab' = "details"
    /\ selected_program' = None
    /\ call' = [op |-> "create_another_program"]
    /\ result' = "None"
    /\ ret' = None
    /\ UNCHANGED <<tables, now, meal_session, food_session, success_message,
                   error_message, current_page, editing_meal, selected_cats,
                   in_flight, last_profile>>

\* What main() of create_program.py shows: the details form alone, or the
\* tabs with meal_assignment_interface, whose lookup of the current program
\* (`.iloc[0]`) raises IndexError when no program has that id
CreateProgramView ==
    IF create_program_tab = "details" \/ current_program_id = None THEN "details"
    ELSE IF \E p \in meal_programs : p.id = current_program_id.value THEN "assign"
    ELSE "IndexError"

\* A run of create_program.py without a button pressed
create_program_main ==
    /\ success_message' = IF Truthy(success_message) THEN None ELSE success_message
    /\ error_message' = IF Truthy(error_message) THEN None ELSE error_message
    /\ selected_program' = None
    /\ call' = [op |-> "create_program_main",
                current_program_id |-> current_program_id]
    /\ result' = CreateProgramView
    /\ ret' = None
    /\ UNCHANGED <<tables, now, meal_session, food_session, current_page,
                   current_program_id, create_program_tab, editing_meal,
                   selected_cats, in_flight, last_profile>>

\* The meals offered for a meal time on the Create Program page
AvailableMeals(meal_time) == {m \in meals : m.category = get_category(meal_time)}

\* Add Meals to Program button with a range of one day whose weekday is
\* ticked: one update_program_meal call, which returns True
assign_meals(meal_time, meal_name, day) ==
    /\ CreateProgramView = "assign"
    /\ \E p \in meal_programs, m \in AvailableMeals(meal_time) :
          /\ p.id = current_program_id.value
          /\ m.name = meal_name
          /\ DayNumber(p.start_date) <= day /\ day <= DayNumber(p.end_date)
          /\ Slot(program_meals, p.id, ProgramDate(day), meal_time) = {} =>
                 NextRowId(program_meals) <= MaxProgramMealId
          /\ program_meals' = UpdateProgramMealRows(program_meals, p.id, m.id,
                                                    ProgramDate(day), meal_time)
    /\ success_message' = [text |-> "Added meal", name |-> meal_name]
    /\ selected_program' = None
    /\ call' = [op |-> "assign_meals", meal_time |-> meal_time,
                meal_name |-> meal_name, day |-> day]
    /\ result' = "None"
    /\ ret' = None
    /\ UNCHANGED <<profile, food_sources, meals, meal_foods, meal_programs,
                   meal_tracking, now, meal_session, food_session,
                   error_message, current_page, current_program_id,
                   create_program_tab, editing_meal, selected_cats, in_flight,
                   last_profile>>

\* View Programs: another program is chosen in the select box
view_select_program(name) ==
    /\ ProgramsNamed(name) # {}
    /\ selected_program' = Some(name)
    /\ call' = [op |-> "view_select_program", name |-> name]
    /\ result' = "None"
    /\ ret' = None
    /\ UNCHANGED <<tables, now, meal_session, food_session, success_message,
                   error_message, current_page, current_program_id,
                   create_program_tab, editing_meal, selected_cats, in_flight,
                   last_profile>>

\* Previous button (disabled on page 0) and on_previous_page
on_previous_page ==
    /\ PaginationShown
    /\ ~(current_page = 0)
    /\ current_page' = IF current_page > 0 THEN current_page - 1 ELSE current_page
    /\ call' = [op |-> "on_previous_page"]
    /\ result' = "None"
    /\ ret' = None
    /\ UNCHANGED <<tables, now, meal_session, food_session, success_message,
                   error_message, selected_program, current_program_id,
                   create_program_tab, editing_meal, selected_cats, in_flight,
                   last_profile>>

\* on_next_page
NextPage(page, total_pages) == IF page < total_pages - 1 THEN page + 1 ELSE page

\* Next button (disabled on the last page and beyond) and on_next_page
on_next_page ==
    /\ PaginationShown
    /\ ~(current_page >= TotalPages(DisplayedProgram) - 1)
    /\ current_page' = NextPage(current_page, TotalPages(DisplayedProgram))
    /\ call' = [op |-> "on_next_page"]
    /\ result' = "None"
    /\ ret' = None
    /\ UNCHANGED <<tables, now, meal_session, food_session, success_message,
                   error_message, selected_program, current_program_id,
                   create_program_tab, editing_meal, selected_cats, in_flight,
                   last_profile>>

\* Delete Program button of View Programs: delete_program on the displayed
\* program; the list of names changes and the select box starts anew
view_delete_program ==
    /\ meal_programs # {}
    /\ program_meals' = {r \in program_meals : r.program_id # DisplayedProgram.id}
    /\ meal_programs' = {p \in meal_programs : p.id # DisplayedProgram.id}
    /\ success_message' = [text |-> "Program deleted", name |-> DisplayedProgram.name]
    /\ selected_program' = None
    /\ call' = [op |-> "view_delete_program", program_id |-> DisplayedProgram.id]
    /\ result' = "None"
    /\ ret' = None
    /\ UNCHANGED <<profile, food_sources, meals, meal_foods, meal_tracking, now,
                   meal_session, food_session, error_message, current_page,
                   current_program_id, create_program_tab, editing_meal,
                   selected_cats, in_flight, last_profile>>

\* show_meal_dialog of View Programs, opened from a slot of a day on the
\* current page: any meal of get_all_meals can be chosen; Add Meal / Update
\* Meal calls update_program_meal
show_meal_dialog(day, meal_time, meal_name) ==
    /\ PaginationShown
    /\ day \in CurrentDays
    /\ \E m \in meals :
          /\ m.name = meal_name
          /\ Slot(program_meals, DisplayedProgram.id, ProgramDate(day), meal_time) = {}
                 => NextRowId(program_meals) <= MaxProgramMealId
          /\ program_meals' = UpdateProgramMealRows(program_meals, DisplayedProgram.id,
                                                    m.id, ProgramDate(day), meal_time)
    /\ success_message' = [text |-> "Meal added", name |-> meal_name]
    /\ call' = [op |-> "show_meal_dialog", day |-> day, meal_time |-> meal_time,
                meal_name |-> meal_name]
    /\ result' = "None"
    /\ ret' = None
    /\ UNCHANGED <<profile, food_sources, meals, meal_foods, meal_programs,
                   meal_tracking, now, meal_session, food_session,
                   error_message, current_page, selected_program,
                   current_program_id, create_program_tab, editing_meal,
                   selected_cats, in_flight, last_profile>>

\* The meals of the program pages, the slots filled and the days used
PageMealTimes == {"Breakfast", "Lunch"}
PageDays == {1, 8}

NextProgramPages ==
    \/ save_meal("Porridge", "Breakfast", "custom", <<>>, CHOOSE x \in CustomMacros : TRUE)
    \/ \E n \in ProgramNames, d \in ProgramDurations : create_program(n, d)
    \/ create_another_program
    \/ create_program_main
    \/ \E t \in PageMealTimes, n \in MealNames, d \in PageDays : assign_meals(t, n, d)
    \/ \E n \in ProgramNames : view_select_program(n)
    \/ on_previous_page
    \/ on_next_page
    \/ view_delete_program

SpecProgramPages == Init /\ [][NextProgramPages]_vars

----------------------------------------------------------------------------
(* Regular Meals page: the category filter and the edit panel *)

\* load_regular_meals
RegularMeals == {m \in meals : m.type = "regular"}

\* The options of the "Filter by Category" multiselect
FilterOptions == {m.category : m \in RegularMeals}

\* The value of the multiselect (default: every option; no key): what the
\* user chose while the options stayed the same, otherwise the default
SelectedCats ==
    IF selected_cats # None /\ selected_cats.value.options = FilterOptions
    THEN selected_cats.value.chosen
    ELSE FilterOptions

\* filtered_meals: `if selected_cats:` -- an empty choice shows every meal
FilteredMeals ==
    IF SelectedCats # {} THEN {m \in RegularMeals : m.category \in SelectedCats}
    ELSE RegularMeals

\* main() of regular_meals.py gets as far as the table of meals
MealTableShown == MealListRendered /\ FilteredMeals # {}

\* ... and enters `if 'editing_meal' in st.session_state:`
EditBlockReached == MealTableShown /\ editing_meal # None

\* meal_to_edit = filtered_meals[filtered_meals['id'] == meal_id].iloc[0]
\* succeeds and the panel with Save Changes / Cancel Editing is drawn
EditPanelShown ==
    EditBlockReached /\ \E m \in FilteredMeals : m.id = editing_meal.value

\* A run of regular_meals.py without a button pressed
regular_meals_main ==
    /\ MealListRendered
    /\ success_message' = IF Truthy(success_message) THEN None ELSE success_message
    /\ error_message' = IF Truthy(error_message) THEN None ELSE error_message
    /\ call' = [op |-> "regular_meals_main", editing_meal |-> editing_meal]
    /\ result' = IF ~EditBlockReached THEN "None"
                 ELSE IF EditPanelShown THEN "editing" ELSE "IndexError"
    /\ ret' = None
    /\ UNCHANGED <<tables, now, meal_session, food_session, page_state,
                   last_profile>>

\* The user changes the category filter
select_categories(cats) ==
    /\ MealListRendered
    /\ RegularMeals # {}
    /\ cats \subseteq FilterOptions
    /\ cats # SelectedCats
    /\ selected_cats' = Some([options |-> FilterOptions, chosen |-> cats])
    /\ call' = [op |-> "select_categories", cats |-> cats]
    /\ result' = "None"
    /\ ret' = None
    /\ UNCHANGED <<tables, now, meal_session, food_session, success_message,
                   error_message, current_page, selected_program,
                   current_program_id, create_program_tab, editing_meal,
                   in_flight, last_profile>>

\* One meal ticked in the table, then Edit Meal
edit_meal(meal_id) ==
    /\ MealTableShown
    /\ \E m \in FilteredMeals : m.id = meal_id
    /\ editing_meal' = Some(meal_id)
    /\ call' = [op |-> "edit_meal", meal_id |-> meal_id]
    /\ result' = "None"
    /\ ret' = None
    /\ UNCHANGED <<tables, now, meal_session, food_session, success_message,
                   error_message, current_page, selected_program,
                   current_program_id, create_program_tab, selected_cats,
                   in_flight, last_profile>>

\* Cancel Editing
cancel_editing ==
    /\ EditPanelShown
    /\ editing_meal' = None
    /\ call' = [op |-> "cancel_editing"]
    /\ result' = "None"
    /\ ret' = None
    /\ UNCHANGED <<tables, now, meal_session, food_session, success_message,
                   error_message, current_page, selected_program,
                   current_program_id, create_program_tab, selected_cats,
                   in_flight, last_profile>>

\* Save Changes: db.update_meal(meal_to_edit['id'], new_name, new_category,
\* foods_quantities=new_quantities); True ends the editing, False (the name
\* is taken) keeps it
save_changes(new_name, new_category, fq) ==
    LET meal_id == editing_meal.value
        outcome == UpdateMealOutcome(meals, meal_id, new_name)
    IN  /\ EditPanelShown
        /\ new_name # "" /\ fq # <<>>
        /\ outcome = "True" =>
               MealFoodIdsFit({r \in meal_foods : r.meal_id # meal_id}, fq)
        /\ meals' = IF outcome = "True"
                    THEN {IF m.id = meal_id
                          THEN UpdateMealRow(m, new_name, new_category, None)
                          ELSE m : m \in meals}
                    ELSE meals
        /\ meal_foods' = IF outcome = "True"
                         THEN UpdateMealFoods(meal_foods, meal_id, fq)
                         ELSE meal_foods
        /\ editing_meal' = IF outcome = "True" THEN None ELSE editing_meal
        /\ success_message' = IF outcome = "True"
                              THEN [text |-> "Meal updated successfully!",
                                    name |-> new_name]
                              ELSE success_message
        /\ error_message' = IF outcome = "True" THEN error_message
                            ELSE [text |-> "Failed to update meal",
                                  name |-> new_name]
        /\ call' = [op |-> "save_changes", meal_id |-> meal_id,
                    name |-> new_name, category |-> new_category]
        /\ result' = outcome
        /\ ret' = None
        /\ UNCHANGED <<profile, food_sources, meal_programs, program_meals,
                       meal_tracking, now, meal_session, food_session,
                       current_page, selected_program, current_program_id,
                       create_program_tab, selected_cats, in_flight,
                       last_profile>>

NextRegularMeals ==
    \/ save_food_source("Egg", CHOOSE data \in CrudFoodData : TRUE)
    \/ \E n \in MealNames, c \in CrudCategories,
          fq \in OneFoodQuantities(ExistingFoodIds) \ {<<>>} :
           save_meal(n, c, "regular", fq, CHOOSE x \in CustomMacros : TRUE)
    \/ regular_meals_main
    \/ \E cats \in SUBSET CrudCategories : select_categories(cats)
    \/ \E id \in MealIdArgs : edit_meal(id)
    \/ cancel_editing
    \/ \E n \in MealNames, c \in CrudCategories,
          fq \in OneFoodQuantities(ExistingFoodIds) \ {<<>>} : save_changes(n, c, fq)
    \/ \E ids \in SUBSET MealIdArgs : delete_meals_with_confirmation("regular", ids)

SpecRegularMeals == InitWithProfile /\ [][NextRegularMeals]_vars

----------------------------------------------------------------------------
(* Program slots filled from both program pages, and meals edited afterwards *)

NextProgramSlots ==
    \/ save_meal("Porridge", "Breakfast", "custom", <<>>, CHOOSE x \in CustomMacros : TRUE)
    \/ save_meal("Omelette", "Lunch/Dinner", "custom", <<>>, CHOOSE x \in CustomMacros : TRUE)
    \/ create_program("Cut", 7)
    \/ \E t \in PageMealTimes, n \in MealNames : assign_meals(t, n, 1)
    \/ \E t \in PageMealTimes, n \in MealNames : show_meal_dialog(1, t, n)
    \/ \E m \in meals, c \in MealCategories :
           update_meal(m.id, m.name, c, <<>>, m.macros)

SpecProgramSlots == Init /\ [][NextProgramSlots]_vars

----------------------------------------------------------------------------
(* The targets of a profile: calculate_all_metrics, then calculate_macro_targets *)

\* calculate_all_metrics: BMR, TDEE and target calories, each rounded
calculate_all_metrics(weight, height, age, gender, activity_level, goal_type, goal_percentage) ==
    LET bmr == calculate_bmr(weight, height, age, gender)
        tdee == RatMul(bmr, get_multiplier(activity_level))
        target_calories == calculate_target_calories(tdee, goal_type, goal_percentage)
    IN  [bmr |-> Round0(bmr), tdee |-> Round0(tdee),
         target_calories |-> Round0(target_calories)]

\* Values the Edit Profile form accepts: weight 30.0 .. 250.0, height
\* 1.0 .. 2.5, age 15 .. 100, the deficit / surplus slider 5 .. 30 (0 for
\* Maintenance, which shows no slider)
FormWeights == {Rat(30, 1), Rat(70, 1), Rat(250, 1)}
FormHeights == {Rat(1, 1), Rat(5, 2)}
FormAges == {15, 100}
FormActivityLevels == {"Sedentary", "Extremely Active"}
FormGoals ==
    {[goal_type |-> "Maintenance", goal_percentage |-> Rat(0, 1)]}
    \cup [goal_type : {"Weight Loss", "Weight Gain"},
          goal_percentage : {Rat(5, 1), Rat(30, 1)}]

\* load_profile_and_targets for a stored profile: the macro targets the
\* pages show
profile_targets(weight, height, age, gender, activity_level, goal) ==
    LET metrics == calculate_all_metrics(weight, height, age, gender, activity_level,
                                         goal.goal_type, goal.goal_percentage)
    IN  /\ call' = [op |-> "profile_targets", weight |-> weight, height |-> height,
                    age |-> age, gender |-> gender,
                    activity_level |-> activity_level, goal |-> goal]
        /\ ret' = calculate_macro_targets(weight, metrics.target_calories,
                      [protein_per_kg |-> None, carb_percentage |-> None,
                       fat_percentage |-> None])
        /\ result' = "dict"
        /\ UNCHANGED <<tables, now, meal_session, food_session, success_message,
                       error_message, page_state, last_profile>>

NextProfileTargets ==
    \E weight \in FormWeights, height \in FormHeights, age \in FormAges,
       gender \in Genders, activity_level \in FormActivityLevels, goal \in FormGoals :
        profile_targets(weight, height, age, gender, activity_level, goal)

SpecProfileTargets == Init /\ [][NextProfileTargets]_vars

----------------------------------------------------------------------------
(* update_program_meal called from two sessions at once *)

\* Each session runs its script in a thread of its own and opens its own
\* connection.  The SELECT of update_program_meal and its UPDATE / INSERT
\* with the commit are separate statements: another session's statements
\* can run between them.

\* update_program_meal up to `existing = c.fetchone()`
update_program_meal_check(s, program_id, meal_id, date, meal_time) ==
    /\ in_flight[s] = None
    /\ in_flight' = [in_flight EXCEPT ![s] =
           [program_id |-> program_id, meal_id |-> meal_id, date |-> date,
            meal_time |-> meal_time,
            existing |-> Slot(program_meals, program_id, date, meal_time) # {}]]
    /\ call' = [op |-> "update_program_meal_check", session |-> s,
                program_id |-> program_id, meal_id |-> meal_id, date |-> date,
                meal_time |-> meal_time]
    /\ result' = "None"
    /\ ret' = None
    /\ UNCHANGED <<tables, now, meal_session, food_session, success_message,
                   error_message, current_page, selected_program,
                   current_program_id, create_program_tab, editing_meal,
                   selected_cats, last_profile>>

\* update_program_meal from `if existing:` to the commit
update_program_meal_write(s) ==
    LET args == in_flight[s]
        slot == Slot(program_meals, args.program_id, args.date, args.meal_time)
    IN  /\ args # None
        /\ ~args.existing => NextRowId(program_meals) <= MaxProgramMealId
        /\ program_meals' =
               IF args.existing
               THEN (program_meals \ slot)
                        \cup {[r EXCEPT !.meal_id = args.meal_id] : r \in slot}
               ELSE InsertProgramMeal(program_meals, args.program_id, args.meal_id,
                                      args.date, args.meal_time)
        /\ in_flight' = [in_flight EXCEPT ![s] = None]
        /\ call' = [op |-> "update_program_meal_write", session |-> s,
                    program_id |-> args.program_id, meal_id |-> args.meal_id,
                    date |-> args.date, meal_time |-> args.meal_time]
        /\ result' = "True"
        /\ ret' = None
        /\ UNCHANGED <<profile, food_sources, meals, meal_foods, meal_programs,
                       meal_tracking, now, meal_session, food_session,
                       success_message, error_message, current_page,
                       selected_program, current_program_id, create_program_tab,
                       editing_meal, selected_cats, last_profile>>

NextSessions ==
    \/ save_meal_program("Cut", "2025-01-01", "2025-01-02")
    \/ \E s \in Sessions, p \in ExistingProgramIds \cap {1}, m \in SlotMealArgs,
          d \in SlotDateArgs :
           update_program_meal_check(s, p, m, d, "Breakfast")
    \/ \E s \in Sessions : update_program_meal_write(s)
    \/ \E p \in ExistingProgramIds \cap {1}, d \in SlotDateArgs :
           delete_program_meal(p, d, "Breakfast")

SpecSessions == Init /\ [][NextSessions]_vars

----------------------------------------------------------------------------
(* Next-state relation of the whole application *)

Next ==
    \/ NextProfile
    \/ NextProgram
    \/ NextMealCrud
    \/ NextMealDelete
    \/ NextMealPages
    \/ meals_cancel_delete
    \/ meals_confirm_delete
    \/ NextBlastRadius
    \/ NextFoodCrud
    \/ NextFoodPage
    \/ NextFoodNames
    \/ NextMealMacros
    \/ NextFoodForms
    \/ NextFoodMacros
    \/ NextMealRoundTrip
    \/ NextMacroTargets
    \/ NextBmr
    \/ NextTdee
    \/ NextTargetCalories
    \/ NextAdherence
    \/ NextMealFoods
    \/ NextMessages
    \/ NextProgramPages
    \/ NextRegularMeals
    \/ NextProgramSlots
    \/ NextProfileTargets
    \/ NextSessions

Spec == Init /\ [][Next]_vars

----------------------------------------------------------------------------
(* C9: the profile table holds at most one row, exactly one once a save has *)
(* happened, and load_profile returns the values of the latest save_profile *)
(* call, or None when no save was made.                                     *)
C9_ProfileSingleton ==
    /\ Cardinality(profile) <= 1
    /\ (last_profile # None => Cardinality(profile) = 1)
    /\ (call.op = "load_profile" =>
            IF last_profile = None
            THEN result = "None" /\ ret = None
            ELSE result = "row" /\ ret.data = last_profile)

\* A second save has replaced the first and load_profile has read it back.
C9_Witness ==
    /\ call.op = "load_profile"
    /\ now >= 2
    /\ result = "row"
    /\ ret.data = last_profile
    /\ ret.last_updated = now

----------------------------------------------------------------------------
(* C1: program_meals holds at most one row per (program_id, date,          *)
(* meal_time) slot in every state reachable by update_program_meal,        *)
(* add_meal_to_program, delete_program_meal and delete_program.            *)
C1_OneRowPerSlot ==
    \A r \in program_meals :
        Cardinality(Slot(program_meals, r.program_id, r.date, r.meal_time)) <= 1

(* C2: update_program_meal(p, m, d, t) is an upsert: when it returns True,  *)
(* slot (p, d, t) holds exactly one row, that row's meal is m, and every   *)
(* row of every other slot is unchanged.                                   *)
C2_UpdateProgramMealUpsert ==
    [][(call'.op = "update_program_meal" /\ result' = "True") =>
         LET slot == Slot(program_meals', call'.program_id, call'.date, call'.meal_time)
         IN  /\ Cardinality(slot) = 1
             /\ \A r \in slot : r.meal_id = call'.meal_id
             /\ program_meals' \ slot =
                  program_meals \ Slot(program_meals, call'.program_id, call'.date,
                                       call'.meal_time)]_vars

(* C3: save_meal called with a name that an existing meal already has      *)
(* returns False, without raising, and leaves meals and meal_foods as they *)
(* were.                                                                   *)
C3_SaveMealDuplicateReturnsFalse ==
    [][(call'.op = "save_meal" /\ MealNamed(meals, call'.name) # {}) =>
         /\ result' = "False"
         /\ meals' = meals
         /\ meal_foods' = meal_foods]_vars

(* C10: no two rows of meals have the same name in any state reachable by   *)
(* save_meal, update_meal and delete_meal; an update_meal that would rename *)
(* a meal to another meal's name returns False and changes neither the meal *)
(* row nor its ingredient rows.                                             *)
C10_MealNamesUnique ==
    /\ [](\A a \in meals : \A b \in meals : a.name = b.name => a.id = b.id)
    /\ [][(call'.op = "update_meal" /\
           \E m \in meals : m.name = call'.name /\ m.id # call'.meal_id /\
                            MealById(meals, call'.meal_id) # {}) =>
            /\ result' = "False"
            /\ meals' = meals
            /\ meal_foods' = meal_foods]_vars

\* Two meals exist and an update_meal that named one after the other was refused.
C10_Witness ==
    /\ call.op = "update_meal"
    /\ result = "False"
    /\ Cardinality(meals) = 2
    /\ \E m \in meals : m.name = call.name /\ m.id # call.meal_id
    /\ \E r \in meal_foods : r.meal_id = call.meal_id

(* C5: asking to delete a meal that is used in a program puts the page in   *)
(* the delete-confirmation state (confirm_delete_meals = True) holding the  *)
(* counts of affected programs and occurrences, with the meal still         *)
(* present; pressing Confirm Delete then deletes the meal.                  *)
C5_MealDeleteAsksConfirmation ==
    /\ [][(call'.op = "delete_meals_with_confirmation" /\
           \E id \in call'.meal_ids : \E r \in program_meals : r.meal_id = id) =>
            /\ confirm_delete_meals' = TRUE
            /\ meals' = meals
            /\ delete_info'.total_occurrences =
                  Cardinality({r \in program_meals : r.meal_id \in call'.meal_ids})
            /\ delete_info'.total_programs_affected >= 1]_vars
    /\ [][call'.op = "meals_confirm_delete" =>
            \A m \in meals' : m.id \notin call'.meal_ids]_vars

(* C7: after delete_meal(m) returns True, meal m is gone and no row of      *)
(* meal_foods, program_meals or meal_tracking references m.                 *)
C7_DeleteMealLeavesNoReference ==
    (call.op = "delete_meal" /\ result = "True") =>
        /\ MealById(meals, call.meal_id) = {}
        /\ \A r \in meal_foods : r.meal_id # call.meal_id
        /\ \A r \in program_meals : r.meal_id # call.meal_id
        /\ \A r \in meal_tracking : r.meal_id # call.meal_id

C4_SaveFoodSourceOnlyInsertsNew ==
    /\ [][call'.op = "save_food_source" =>
            IF FoodNamed(food_sources, call'.name) # {}
            THEN result' = "False" /\ food_sources' = food_sources
            ELSE /\ result' = "True"
                 /\ \E f \in food_sources' :
                        /\ f \notin food_sources
                        /\ f.name = call'.name
                        /\ f.data = call'.data
                        /\ food_sources' = food_sources \cup {f}]_vars
    /\ [][(call.op = "add_food_sources" /\ call'.op = "add_food_sources" /\
           call'.batch = call.batch) =>
            ret'.foods_added = 0 /\ food_sources' = food_sources]_vars

\* A save under an existing name, with other values, was refused.
C4_Witness ==
    /\ call.op = "save_food_source"
    /\ result = "False"
    /\ \E f \in food_sources : f.name = call.name /\ f.data # call.data

----------------------------------------------------------------------------
(* C11: no two rows of food_sources carry the same name, whatever sequence  *)
(* of save_food_source, update_food_source and delete_multiple_food_sources *)
(* calls was made; an update_food_source that would give a food the name of *)
(* another food returns False and leaves food_sources unchanged.            *)
C11_FoodNamesUnique ==
    /\ [](\A f \in food_sources, g \in food_sources : f.name = g.name => f = g)
    /\ [][(/\ call'.op = "update_food_source"
           /\ FoodById(food_sources, call'.food_id) # {}
           /\ \E g \in food_sources :
                  g.name = call'.name /\ g.id # call'.food_id) =>
            result' = "False" /\ food_sources' = food_sources]_vars

\* With two foods stored, renaming one to the other's name was refused.
C11_Witness ==
    /\ call.op = "update_food_source"
    /\ result = "False"
    /\ Cardinality(food_sources) = 2
    /\ \E f \in food_sources, g \in food_sources :
          f.id = call.food_id /\ g.id # f.id /\ g.name = call.name /\ f.name # g.name

----------------------------------------------------------------------------
(* C12: under save_meal and update_meal, a meal of type 'regular' stores no *)
(* calories, proteins, carbs or fats (all NULL); a meal of type 'custom'    *)
(* stores the macros of the last save_meal or update_meal call that wrote   *)
(* it (a call that fails writes nothing); and the type of a meal never      *)
(* changes after its creation.                                              *)
C12_MacrosFollowMealType ==
    /\ [](\A m \in meals : (m.type = "regular" => m.macros = NULL)
                        /\ (m.type = "custom" => m.macros \in CustomMacros))
    /\ [][\A n \in meals' :
            LET old == MealById(meals, n.id)
                written == \/ /\ call'.op = "save_meal"
                              /\ result' = "True"
                              /\ old = {}
                           \/ /\ call'.op = "update_meal"
                              /\ result' = "True"
                              /\ call'.meal_id = n.id
            IN  /\ \A m \in old : n.type = m.type
                /\ (n.type = "custom" /\ written) => n.macros = call'.custom_macros
                /\ ~written => n \in meals]_vars

\* update_meal has succeeded on a custom meal, which now stores the macros of
\* that call, next to a regular meal that stores none.
C12_Witness ==
    /\ call.op = "update_meal"
    /\ result = "True"
    /\ \E m \in meals : /\ m.id = call.meal_id
                        /\ m.type = "custom"
                        /\ m.macros = call.custom_macros
    /\ \E m \in meals : m.type = "regular" /\ m.macros = NULL

----------------------------------------------------------------------------
(* C13: after a food was written by the Add Food page or by an edit on the  *)
(* Manage Foods page, its stored base_unit is the unit the user selected    *)
(* ('g', 'ml' or 'unit') and its stored conversion_factor is the entered    *)
(* grams per unit when the unit is 'unit' and 1.0 otherwise.                *)
C13_FoodUnitStored ==
    (call.op \in {"add_food_source", "manage_update_food_source"} /\ result = "True") =>
        \E f \in food_sources :
            /\ f.name = call.name
            /\ f.data.base_unit = Text(call.base_unit)
            /\ f.data.conversion_factor =
                   Real(IF call.base_unit = "unit" THEN call.grams ELSE 1)

----------------------------------------------------------------------------
----------------------------------------------------------------------------
(* C15: round trip of a regular meal.  The totals that                      *)
(* calculate_meal_macros(foods_df, quantities) computes from existing foods *)
(* with positive quantities equal the totals computed from                  *)
(* get_meal_with_foods(meal_id)['foods'] once save_meal has stored the meal *)
(* with those quantities.                                                   *)
C15_RegularMealRoundTrip ==
    (call.op = "create_regular_meal" /\ result = "True") =>
        \E m \in MealNamed(meals, call.name) :
            /\ get_meal_with_foods(m.id) # None
            /\ Len(get_meal_with_foods(m.id).foods) = Len(call.quantities)
            /\ calculate_meal_macros_list(get_meal_with_foods(m.id).foods) = ret

\* A second meal was saved with two foods, one of them count-based, while
\* another meal's ingredients are stored too.
C15_Witness ==
    /\ call.op = "create_regular_meal"
    /\ result = "True"
    /\ Len(call.quantities) = 2
    /\ Cardinality(meals) = 2
    /\ \E f \in food_sources : f.data.base_unit = "unit"
    /\ ret.calories # Rat(0, 1)
    /\ \E m \in MealNamed(meals, call.name) :
          calculate_meal_macros_list(get_meal_with_foods(m.id).foods) = ret

----------------------------------------------------------------------------
(* C16: the macro targets of calculate_macro_targets add up to the target   *)
(* calories within the error of rounding three gram values:                 *)
(* |4 * protein + 4 * carbs + 9 * fats - target_calories| <= 8.5 kcal.      *)
C16_MacroTargetsSumToCalories ==
    call.op = "calculate_macro_targets" =>
        LET kcal == RatAdd(RatMul(Rat(4, 1), ret.protein),
                           RatAdd(RatMul(Rat(4, 1), ret.carbs),
                                  RatMul(Rat(9, 1), ret.fats)))
        IN  RatLeq(RatAbs(RatSub(kcal, call.target_calories)), Rat(17, 2))

\* A weight of 70.25 kg: the protein target of 140.5 g is a tie and is rounded
\* to the even 140 g, and the rounded targets miss the target calories.
C16_Witness ==
    /\ call.op = "calculate_macro_targets"
    /\ call.weight = Rat(281, 4)
    /\ call.options.protein_per_kg = None
    /\ ret.protein = Rat(140, 1)
    /\ LET kcal == RatAdd(RatMul(Rat(4, 1), ret.protein),
                          RatAdd(RatMul(Rat(4, 1), ret.carbs),
                                 RatMul(Rat(9, 1), ret.fats)))
       IN  kcal # call.target_calories

----------------------------------------------------------------------------
(* C17: calculate_target_calories returns tdee * (1 - p/100) for the goal   *)
(* type "Weight Loss", tdee * (1 + p/100) for "Weight Gain", and tdee       *)
(* itself, whatever p is, for "Maintenance" and every other goal type.      *)
C17_TargetCaloriesByGoal ==
    call.op = "calculate_target_calories" =>
        LET share == RatDiv(RatMul(call.tdee, call.goal_percentage), Rat(100, 1))
        IN  ret = CASE call.goal_type = "Weight Loss" -> RatSub(call.tdee, share)
                    [] call.goal_type = "Weight Gain" -> RatAdd(call.tdee, share)
                    [] OTHER -> call.tdee

\* A 12.5 % cut of 1800 kcal gives 1575 kcal.
C17_Witness ==
    /\ call.op = "calculate_target_calories"
    /\ call.goal_type = "Weight Loss"
    /\ call.tdee = Rat(1800, 1)
    /\ call.goal_percentage = Rat(25, 2)
    /\ ret = Rat(1575, 1)

----------------------------------------------------------------------------
(* C18: calculate_tdee(bmr, level) is bmr times 1.2 for "Sedentary", 1.24   *)
(* for "Lightly Active", 1.4 for "Very Active" and 1.62 for "Extremely      *)
(* Active"; for any other level string it raises ValueError and returns no  *)
(* value.                                                                   *)
C18_TdeeByActivityLevel ==
    call.op = "calculate_tdee" =>
        CASE call.activity_level = "Sedentary" ->
                 result = "float" /\ ret = RatMul(call.bmr, Rat(120, 100))
          [] call.activity_level = "Lightly Active" ->
                 result = "float" /\ ret = RatMul(call.bmr, Rat(124, 100))
          [] call.activity_level = "Very Active" ->
                 result = "float" /\ ret = RatMul(call.bmr, Rat(140, 100))
          [] call.activity_level = "Extremely Active" ->
                 result = "float" /\ ret = RatMul(call.bmr, Rat(162, 100))
          [] OTHER -> result = "ValueError" /\ ret = None

\* A level that is no member's value, differing from one only in case.
C18_Witness ==
    /\ call.op = "calculate_tdee"
    /\ call.activity_level = "sedentary"
    /\ result = "ValueError"

----------------------------------------------------------------------------
(* C19: calculate_bmr(weight_kg, height_m, age, gender) is the Mifflin-St   *)
(* Jeor value 10 * weight + 6.25 * (height_m * 100) - 5 * age + 5 for the   *)
(* gender "Male", and the same with - 161 in place of + 5 for every other   *)
(* gender value; calculate_bmr(70, 1.75, 30, "Male") = 1648.75.             *)
C19_BmrMifflinStJeor ==
    call.op = "calculate_bmr" =>
        LET base == RatSub(RatAdd(RatMul(Rat(10, 1), call.weight),
                                  RatMul(Rat(625, 100),
                                         RatMul(call.height, Rat(100, 1)))),
                           Rat(5 * call.age, 1))
        IN  /\ ret = IF call.gender = "Male"
                     THEN RatAdd(base, Rat(5, 1))
                     ELSE RatSub(base, Rat(161, 1))
            /\ (/\ call.weight = Rat(70, 1)
                /\ call.height = Rat(175, 100)
                /\ call.age = 30
                /\ call.gender = "Male") => ret = Rat(164875, 100)

\* A gender value that is neither 'Male' nor 'Female' takes the - 161 branch.
C19_Witness ==
    /\ call.op = "calculate_bmr"
    /\ call.gender = "Other"
    /\ call.weight = Rat(70, 1)
    /\ call.height = Rat(175, 100)
    /\ call.age = 30
    /\ ret = Rat(148275, 100)

----------------------------------------------------------------------------
(* C20: for each meal time, the adherence of calculate_meal_time_adherence  *)
(* is the percentage of the planned meals of that meal time in the selected *)
(* date range that were tracked, a planned (date, meal time) slot counting  *)
(* as tracked only when a meal was logged for that date and meal time.      *)
C20_AdherenceCountsTrackedSlots ==
    call.op = "calculate_meal_time_adherence" =>
        \A row \in ret.adherence_df :
            LET planned == {pm \in get_planned_meals(call.program_id,
                                                     call.start_date, call.end_date) :
                               pm.meal_time = row.meal_time}
                followed == {pm \in planned :
                                \E mt \in get_tracked_meals(call.start_date,
                                                            call.end_date) :
                                    mt.date = pm.date /\ mt.meal_time = pm.meal_time}
            IN  row.adherence =
                    Round1(RatMul(Rat(Cardinality(followed), Cardinality(planned)),
                                  Rat(100, 1)))

----------------------------------------------------------------------------
(* C21: update_meal(m, name, category, foods_quantities = Q) on a regular   *)
(* meal with a non-empty Q, when it returns True, leaves meal m with        *)
(* exactly the ingredient rows of Q (the previous rows of m are gone, there *)
(* is one row per entry of Q with its food id and quantity) and changes no  *)
(* ingredient row of another meal.                                          *)
C21_UpdateMealReplacesIngredients ==
    [][(/\ call'.op = "update_meal"
        /\ result' = "True"
        /\ call'.foods_quantities # <<>>
        /\ \E m \in MealById(meals, call'.meal_id) : m.type = "regular") =>
         LET Q == call'.foods_quantities
             mine == {r \in meal_foods' : r.meal_id = call'.meal_id}
         IN  /\ Cardinality(mine) = Len(Q)
             /\ {[id |-> r.food_id, quantity |-> r.quantity] : r \in mine} =
                    {Q[i] : i \in 1..Len(Q)}
             /\ {r \in meal_foods' : r.meal_id # call'.meal_id} =
                    {r \in meal_foods : r.meal_id # call'.meal_id}]_vars

\* The second meal, saved with one ingredient, was updated to two others
\* while the first meal keeps its ingredient row.
C21_Witness ==
    /\ call.op = "update_meal"
    /\ result = "True"
    /\ call.meal_id = 2
    /\ Len(call.foods_quantities) = 2
    /\ Cardinality({r \in meal_foods : r.meal_id = 2}) = 2
    /\ \E r \in meal_foods : r.meal_id = 1 /\ r.id = 1
    /\ \A r \in meal_foods : r.meal_id = 2 => r.id > 1

----------------------------------------------------------------------------
(* C22: Cancel in a delete-confirmation dialog *)

\* the Cancel buttons of the delete-confirmation dialogs
CancelOps == {"foods_cancel_delete", "meals_cancel_delete"}

\* the names of the foods a step removes from food_sources
RemovedFoodNames == {f.name : f \in food_sources} \ {f.name : f \in food_sources'}

\* C22: a press of Cancel in a delete-confirmation dialog changes no table
\* and leaves the dialog's state reset (confirm flag False, nothing listed
\* for deletion, no stored deletion info); and while no confirmation is
\* pending, foods only disappear through a new delete request naming them,
\* so a later click cannot delete the selection that was cancelled.
C22_CancelResetsConfirmation ==
    [][ /\ call'.op \in CancelOps =>
            /\ tables' = tables
            /\ call'.op = "foods_cancel_delete" =>
                   /\ ~confirm_delete_foods'
                   /\ foods_to_delete' = {}
                   /\ delete_food_info' = None
            /\ call'.op = "meals_cancel_delete" =>
                   /\ ~confirm_delete_meals'
                   /\ meals_to_delete' = {}
                   /\ delete_info' = None
        /\ (~confirm_delete_foods /\ RemovedFoodNames # {}) =>
               /\ call'.op = "delete_food_sources"
               /\ RemovedFoodNames \subseteq call'.food_names
      ]_vars

\* Cancel was pressed on the Manage Foods dialog opened for a food that a
\* meal uses: the food and its ingredient row are still there
C22_Witness ==
    /\ call.op = "foods_cancel_delete"
    /\ ~confirm_delete_foods
    /\ foods_to_delete = {}
    /\ \E f \in food_sources : \E mf \in meal_foods : mf.food_id = f.id

----------------------------------------------------------------------------
(* C23: a message is shown at most once *)

\* the operations that set a message: the two setters and the handlers of
\* the modelled pages that call them
MessageSetters == {"set_success_message", "set_error_message", "add_food_source"}

\* C23: a message set with set_success_message or set_error_message is shown
\* at most once.  A render (display_success_error) shows exactly the messages
\* that are pending and leaves none of them pending, and a message only
\* becomes pending through a step that sets it: so the first render after
\* the message was set shows it, and no later render shows it again unless
\* it is set again.
C23_MessageShownOnce ==
    [][ /\ call'.op = "display_success_error" =>
            /\ Truthy(success_message) =>
                   (ret'.success = success_message /\ success_message' = None)
            /\ Truthy(error_message) =>
                   (ret'.error = error_message /\ error_message' = None)
            /\ ~Truthy(success_message) => ret'.success = None
            /\ ~Truthy(error_message) => ret'.error = None
            /\ ~Truthy(success_message') /\ ~Truthy(error_message')
        /\ (Truthy(success_message') /\ success_message' # success_message)
               => call'.op \in MessageSetters
        /\ (Truthy(error_message') /\ error_message' # error_message)
               => call'.op \in MessageSetters
      ]_vars

\* a render has shown a success message and an error message and cleared both
C23_Witness ==
    /\ call.op = "display_success_error"
    /\ ret.success # None
    /\ ret.error # None
    /\ success_message = None
    /\ error_message = None
    /\ InitPageState

----------------------------------------------------------------------------
(* C24: every ingredient row references an existing food and meal *)

\* C24: in every reachable state every meal_foods row references a food of
\* food_sources and a meal of meals; deleting a food or a meal leaves no
\* ingredient row pointing at it.
C24_IngredientsReferenceExistingRows ==
    \A i \in meal_foods :
        /\ \E f \in food_sources : f.id = i.food_id
        /\ \E m \in meals : m.id = i.meal_id

----------------------------------------------------------------------------
(* C25: the page shown by View Programs exists *)

\* C25: on the View Programs page, after any Previous / Next clicks, program
\* selections and program deletions, 0 <= current_page <= total_pages - 1
\* for the displayed program, total_pages being the number of 7-day pages of
\* its date range (stated for the states in which the page shows the
\* pagination controls).
C25_CurrentPageInRange ==
    PaginationShown =>
        /\ 0 <= current_page
        /\ current_page <= TotalPages(DisplayedProgram) - 1

----------------------------------------------------------------------------
(* C26: the program of the meal-assignment interface exists *)

\* C26: on the Create Program page, whenever the meal-assignment interface
\* is rendered with a non-empty current_program_id, that id names a program
\* that still exists, whatever program creations and deletions (deletion on
\* the View Programs page included) came before.
C26_CurrentProgramExists ==
    (call.op = "create_program_main" /\ result # "details") =>
        /\ current_program_id # None
        /\ \E p \in meal_programs : p.id = current_program_id.value

----------------------------------------------------------------------------
(* C27: the meal of the edit panel is in the displayed list *)

\* C27: on the Regular Meals page, whenever the page comes to render the
\* edit panel (editing_meal is in the session and the list of meals is
\* shown), editing_meal names a meal of the displayed, category-filtered
\* list, whatever Edit clicks, filter changes and meal deletions came before.
C27_EditingMealDisplayed ==
    EditBlockReached => \E m \in FilteredMeals : m.id = editing_meal.value

----------------------------------------------------------------------------
(* C28: the meal of a slot has the category of the slot's meal time *)

\* C28: in every reachable state the category of the meal assigned to a
\* program slot is MealTime.get_category of the slot's meal time, whichever
\* page made the assignment and whatever meal edits followed.
C28_SlotCategoryMatches ==
    \A pm \in program_meals : \A m \in meals :
        m.id = pm.meal_id => m.category = get_category(pm.meal_time)

----------------------------------------------------------------------------
(* C29: macro targets are not negative *)

\* C29: for every profile the Edit Profile form accepts, the macro targets
\* computed by calculate_all_metrics followed by calculate_macro_targets
\* have protein, carbs and fats all >= 0.
C29_MacroTargetsNotNegative ==
    call.op = "profile_targets" =>
        /\ RatLeq(Rat(0, 1), ret.protein)
        /\ RatLeq(Rat(0, 1), ret.carbs)
        /\ RatLeq(Rat(0, 1), ret.fats)

----------------------------------------------------------------------------
(* C30: update_program_meal from two sessions *)

\* C30: when two sessions call update_program_meal for the same empty slot
\* and their existence checks and writes interleave, the slot ends with
\* exactly one row: once a session's update_program_meal has returned and no
\* call is running, the slot it wrote holds one row.
C30_ConcurrentUpsertOneRow ==
    (call.op = "update_program_meal_write" /\ \A s \in Sessions : in_flight[s] = None) =>
        Cardinality(Slot(program_meals, call.program_id, call.date, call.meal_time)) = 1

====
